---- MODULE Spec2Model ----
(***************************************************************************)
(* ltcache: one cache instance of a TransCache together with its           *)
(* OfflineCollector (append-only dump files, size rotation, rewrite into   *)
(* 0Rewrite snapshots, recovery at start-up).                              *)
(*                                                                         *)
(* Sizes are counted in units of one MiB; every encoded record occupies    *)
(* RecSize units.  Time is the millisecond clock `now`.                    *)
(***************************************************************************)
EXTENDS Integers, Sequences, FiniteSets, TLC

VARIABLES
  now,          \* time.Now().UnixMilli()
  phase,        \* "up": running, "down": crashed or shut down, "recovered": started again,
                \* "failed": the replay of the folder returned an error
  files,        \* the instance folder: path -> sequence of encoded records
  file,         \* OfflineCollector.file (with writer and encoder): the open dump file
  collection,   \* OfflineCollector.collection: itemID -> CollectionEntity
  cache,        \* Cache.cache: itemID -> cachedItem
  lruIdx,       \* Cache.lruIdx, most recently used first
  groups,       \* Cache.groups: groupID -> set of itemIDs
  cfg,          \* dumpInterval, writeLimit, maxEntries, ttl of the instance
  rewriteMux,   \* OfflineCollector.rewriteMux: holder
  fileMux,      \* OfflineCollector.fileMux: holder
  cacheMux,     \* TransCache.cacheMux: holder (exclusive mode)
  pc,           \* position of every thread
  rw,           \* locals of rewriteFiles, per thread
  mu,           \* locals of a mutation (Set/Remove/RemoveGroup/Clear), per thread
  logErr,       \* number of messages given to logger.Err
  boot,         \* NewTransCacheWithOfflineCollector: its goroutines, wg, errChan and done
  offlineHelper,     \* TransCache.offlineHelper: rewriteInterval, the two timer loops
  transactionBuffer, \* TransCache.transactionBuffer: transID -> queued operations
  transBufMux,       \* TransCache.transBufMux: holder
  transactionMux,    \* TransCache.transactionMux: holder
  rlocks,            \* TransCache.cacheMux: the threads that hold it in shared mode
  tx,                \* locals of a call of a client: transID, loop index, item read
  others,            \* TransCache.cache: the cache instances beside the one of `cache`
  hist          \* history: what the claims compare the program against

\* the state of the TransCache beside its cache instance
aux == <<offlineHelper, transactionBuffer, transBufMux, transactionMux, rlocks, tx, others>>

vars == <<now, phase, files, file, collection, cache, lruIdx, groups, cfg,
          rewriteMux, fileMux, cacheMux, pc, rw, mu, logErr, boot, aux, hist>>

----------------------------------------------------------------------------
(* Bounds of the model *)

MaxTime     == 3   \* the clock runs from 1 to MaxTime
MaxOps      == 2   \* mutations issued in one behaviour
MaxRewrites == 2   \* calls of rewriteFiles in one behaviour
TTL         == 3   \* the time to live, when there is one
MaxFaults   == 2   \* I/O errors injected in one behaviour

RecSize == 2       \* size of one encoded record, in the unit MiB
MiB     == 1       \* 1024*1024 bytes, the unit of size

ItemIDs  == {"a", "b"}
Values   == {"v1", "v2"}
GroupIDs == {"g1"}

Rewriters == {"r1", "r2"}
Mutators  == {"m1", "m2"}
Writers   == {"w1"}
Callers   == {"s1"}
Clients   == {"c1", "c2"}
Threads   == Rewriters \cup Mutators \cup Writers \cup Callers \cup Clients
None      == "none"

DefaultCacheInstance == "*default"

\* the cache instances of the TransCache: "x", whose engine and collector are
\* modelled in full, the default instance and one more
OtherInstances == {DefaultCacheInstance, "y"}

----------------------------------------------------------------------------
(* Paths of the instance folder.  A path is [k, i, t]:                     *)
(*   "0Rewrite"<i>_<t>, <t> (a dump file named by its millisecond),        *)
(*   "oldRewrite"<i>, "tmpRewrite" (t = 0) and "tmpRewrite"<t>.            *)

rewriteFileName == "0Rewrite"
tmpRewriteName  == "tmpRewrite"
oldRewriteName  == "oldRewrite"
dumpFileName    == "ts"

Path(k, i, t) == [k |-> k, i |-> i, t |-> t]
NoPath        == Path(None, 0, 0)

\* first byte of the name: '0' < '1'..'9' < 'o' < 't'
KindRank(k) == CASE k = rewriteFileName -> 0
                 [] k = dumpFileName    -> 1
                 [] k = oldRewriteName  -> 2
                 [] k = tmpRewriteName  -> 3
                 [] OTHER               -> 4

\* lexical order of file names (indices of one digit, timestamps of equal width)
PathLess(p, q) ==
  \/ KindRank(p.k) < KindRank(q.k)
  \/ /\ p.k = q.k
     /\ \/ p.i < q.i
        \/ p.i = q.i /\ p.t < q.t

RECURSIVE SortPaths(_)
SortPaths(S) ==
  IF S = {} THEN <<>>
  ELSE LET m == CHOOSE p \in S : \A q \in S \ {p} : PathLess(p, q)
       IN  <<m>> \o SortPaths(S \ {m})

\* filepath.WalkDir: the files of the folder in lexical order
getFilePaths(fs) == SortPaths(DOMAIN fs)

Range(s) == {s[x] : x \in DOMAIN s}

\* the folder with path p holding content c / without path p
WithFile(fs, p, c) == [q \in DOMAIN fs \cup {p} |-> IF q = p THEN c ELSE fs[q]]
WithoutFiles(fs, P) == [q \in DOMAIN fs \ P |-> fs[q]]

----------------------------------------------------------------------------
(* OfflineCacheEntity and its gob encoding.  gob sends the fields that are *)
(* not zero and the decoder leaves the others at their zero value.  An     *)
(* encoder sends the description of the type before its first value       *)
(* (`types`); a decoder rejects a description it has already received and  *)
(* a value whose type it has not received.                                 *)

ZeroValue  == ""
ZeroGroups == <<>>
ZeroTime   == 0

OfflineCacheEntity(isSet, id, v, g, e) ==
  [IsSet |-> isSet, ItemID |-> id, Value |-> v, GroupIDs |-> g, ExpiryTime |-> e]

Encode(oce, first) ==
  [whole |-> TRUE,
   types |-> first,
   sent  |-> {f \in {"IsSet", "ItemID", "Value", "GroupIDs", "ExpiryTime"} :
                CASE f = "IsSet"      -> oce.IsSet
                  [] f = "ItemID"     -> oce.ItemID # ""
                  [] f = "Value"      -> oce.Value # ZeroValue
                  [] f = "GroupIDs"   -> oce.GroupIDs # ZeroGroups
                  [] f = "ExpiryTime" -> oce.ExpiryTime # ZeroTime},
   body  |-> oce]

Decode(w) ==
  [IsSet      |-> IF "IsSet" \in w.sent THEN w.body.IsSet ELSE FALSE,
   ItemID     |-> IF "ItemID" \in w.sent THEN w.body.ItemID ELSE "",
   Value      |-> IF "Value" \in w.sent THEN w.body.Value ELSE ZeroValue,
   GroupIDs   |-> IF "GroupIDs" \in w.sent THEN w.body.GroupIDs ELSE ZeroGroups,
   ExpiryTime |-> IF "ExpiryTime" \in w.sent THEN w.body.ExpiryTime ELSE ZeroTime]

\* a record of which only a part reached the file
Truncated(w) == [w EXCEPT !.whole = FALSE]

----------------------------------------------------------------------------
(* Replay *)

EmptyInstance == [k \in {} |-> 0]

\* a map that keeps the first set record of an item
ApplyFirst(inst, oce) ==
  IF oce.IsSet
  THEN [k \in DOMAIN inst \cup {oce.ItemID} |-> IF k \in DOMAIN inst THEN inst[k] ELSE oce]
  ELSE [k \in DOMAIN inst \ {oce.ItemID} |-> inst[k]]

\* one decoded entity applied to the momentary instance map
ApplyEntity(inst, oce) ==
  IF oce.IsSet
  THEN [k \in DOMAIN inst \cup {oce.ItemID} |-> IF k = oce.ItemID THEN oce ELSE inst[k]]
  ELSE [k \in DOMAIN inst \ {oce.ItemID} |-> inst[k]]

\* dec.Decode of the next record by a decoder that has (typed) or has not
\* received the type description: whether it returns an error other than io.EOF
DecodeFails(w, typed) == ~w.whole \/ w.types = typed

\* the loop of readAndDecodeFile: decode until io.EOF; any other error is returned
RECURSIVE DecodeLoop(_, _, _)
DecodeLoop(content, inst, typed) ==
  IF content = <<>> THEN [err |-> FALSE, instance |-> inst]
  ELSE IF DecodeFails(Head(content), typed) THEN [err |-> TRUE, instance |-> inst]
  ELSE DecodeLoop(Tail(content), ApplyEntity(inst, Decode(Head(content))), TRUE)

\* readAndDecodeFile: a new decoder on the content of the file
readAndDecodeFile(content, inst) == DecodeLoop(content, inst, FALSE)

\* the loop over the paths, shared by readInstanceFromFiles and getFilePathsAndInstance
RECURSIVE ReadPaths(_, _, _)
ReadPaths(fs, paths, inst) ==
  IF paths = <<>> THEN [err |-> FALSE, instance |-> inst]
  ELSE IF Head(paths) \notin DOMAIN fs THEN [err |-> TRUE, instance |-> inst, at |-> Head(paths)]
  ELSE LET r == readAndDecodeFile(fs[Head(paths)], inst)
       IN  IF r.err THEN [err |-> TRUE, instance |-> r.instance, at |-> Head(paths)]
           ELSE ReadPaths(fs, Tail(paths), r.instance)

\* a replay that returns the map as the failed file left it
ReturnsPartial(fs, paths) == ReadPaths(fs, paths, EmptyInstance)

\* readInstanceFromFiles: the map of all files, or a nil map and the error,
\* which names the file, of the first file that fails
readInstanceFromFiles(fs, paths) ==
  LET r == ReadPaths(fs, paths, EmptyInstance)
  IN  IF r.err THEN [err |-> TRUE, instance |-> EmptyInstance, at |-> r.at] ELSE r

\* validateFilePaths: the paths kept, in input order
RECURSIVE FilterPaths(_, _)
FilterPaths(paths, drop) ==
  IF paths = <<>> THEN <<>>
  ELSE IF Head(paths) \in drop THEN FilterPaths(Tail(paths), drop)
  ELSE <<Head(paths)>> \o FilterPaths(Tail(paths), drop)

\* validateFilePaths: the paths it removes from the folder
InvalidPaths(paths) ==
  LET removeZeroRewrite == \E x \in DOMAIN paths : paths[x].k = oldRewriteName
  IN  {p \in Range(paths) :
         \/ p.k = tmpRewriteName
         \/ removeZeroRewrite /\ p.k = rewriteFileName}

validateFilePaths(paths) == FilterPaths(paths, InvalidPaths(paths))

----------------------------------------------------------------------------
(* The open dump file of the collector.  `linked` is FALSE once the path   *)
(* of an open file has been removed: what is written then is in no file    *)
(* of the folder.  `usize` is the size of such a file.                     *)

NoFile == [path |-> NoPath, open |-> FALSE, linked |-> FALSE, usize |-> 0, typed |-> FALSE]

FileSize(fs, h) == IF h.linked THEN Len(fs[h.path]) * RecSize ELSE h.usize

\* populateEncoder: open (O_APPEND|O_CREATE) the dump file named by the current millisecond
populateEncoder(fs, t) ==
  LET p == Path(dumpFileName, 0, t)
  IN  [files |-> IF p \in DOMAIN fs THEN fs ELSE WithFile(fs, p, <<>>),
       file  |-> [path |-> p, open |-> TRUE, linked |-> TRUE, usize |-> 0, typed |-> FALSE]]

\* whether populateEncoder at millisecond t opens a file that is already in the folder
Reopens(fs, t) == Path(dumpFileName, 0, t) \in DOMAIN fs

\* encodeAndWrite on the open dump file: encode, then flush
encodeAndWrite(fs, h, oce) ==
  IF h.linked
  THEN [files |-> WithFile(fs, h.path, Append(fs[h.path], Encode(oce, ~h.typed))),
        file  |-> [h EXCEPT !.typed = TRUE]]
  ELSE [files |-> fs, file |-> [h EXCEPT !.usize = @ + RecSize, !.typed = TRUE]]

\* checkAndRotateFile: a new dump file once the current one exceeds writeLimit MiB
checkAndRotateFile(fs, h, t, writeLimit) ==
  IF writeLimit = -1 THEN [files |-> fs, file |-> h, err |-> FALSE]
  ELSE IF ~h.open THEN [files |-> fs, file |-> h, err |-> TRUE]
  ELSE IF FileSize(fs, h) > writeLimit * MiB
       THEN [files |-> populateEncoder(fs, t).files,
             file  |-> populateEncoder(fs, t).file, err |-> FALSE]
       ELSE [files |-> fs, file |-> h, err |-> FALSE]

\* an os.Remove that removes nothing
KeepPaths(fs, h, P) == [files |-> fs, file |-> h]

\* os.Remove of a set of paths: the open dump file loses its path
RemovePaths(fs, h, P) ==
  [files |-> WithoutFiles(fs, P),
   file  |-> IF h.linked /\ h.path \in P
             THEN [h EXCEPT !.linked = FALSE, !.usize = Len(fs[h.path]) * RecSize]
             ELSE h]

----------------------------------------------------------------------------
(* OfflineCollector: collecting *)

CollectionEntity(isSet, id) == [IsSet |-> isSet, ItemID |-> id]

PutEntity(coll, e) == [k \in DOMAIN coll \cup {e.ItemID} |-> IF k = e.ItemID THEN e ELSE coll[k]]

\* a collect that notes nothing
collectNothing(coll, itemID) == coll

\* collect: note a SET of the item
collect(coll, itemID) == PutEntity(coll, CollectionEntity(TRUE, itemID))

\* a storeRemoveEntity that forgets the item instead of noting its removal
storeRemoveEntityForget(coll, itemID, dumpInterval) ==
  [collection |-> [k \in DOMAIN coll \ {itemID} |-> coll[k]], write |-> <<>>]

\* storeRemoveEntity: write the REMOVE at once (dumpInterval = -1) or collect it
storeRemoveEntity(coll, itemID, dumpInterval) ==
  IF dumpInterval = -1
  THEN [collection |-> coll, write |-> <<OfflineCacheEntity(FALSE, itemID, ZeroValue, ZeroGroups, ZeroTime)>>]
  ELSE [collection |-> PutEntity(coll, CollectionEntity(FALSE, itemID)), write |-> <<>>]

----------------------------------------------------------------------------
(* Cache: the item map, the LRU list and the group index                   *)

cachedItem(v, g, e) == [value |-> v, groupIDs |-> g, expiryTime |-> e]

EmptyCache  == [k \in {} |-> 0]
EmptyGroups == [g \in {} |-> {}]

SeqWithout(s, x) == SelectSeq(s, LAMBDA y : y # x)

\* a removal that leaves the group index as it is
GroupsKept(grp, id) == grp

\* the group index without item id (empty groups are dropped)
GroupsWithout(grp, id) ==
  LET keep == {g \in DOMAIN grp : grp[g] \ {id} # {}}
  IN  [g \in keep |-> grp[g] \ {id}]

\* addItemToGroups
addItemToGroups(grp, id, grpIDs) ==
  [g \in DOMAIN grp \cup Range(grpIDs) |->
     (IF g \in DOMAIN grp THEN grp[g] ELSE {}) \cup (IF g \in Range(grpIDs) THEN {id} ELSE {})]

\* Cache.remove: unlink item id from the map, the LRU list and the groups
remove(c, id) ==
  [cache  |-> [k \in DOMAIN c.cache \ {id} |-> c.cache[k]],
   lruIdx |-> SeqWithout(c.lruIdx, id),
   groups |-> GroupsWithout(c.groups, id)]

RECURSIVE removeAll(_, _)
removeAll(c, ids) ==
  IF ids = <<>> THEN c ELSE removeAll(remove(c, Head(ids)), Tail(ids))

\* Set that evicts the most recently used item
SetEvictsFront(c, id, maxEntries) ==
  IF id \notin DOMAIN c.cache /\ maxEntries # -1
     /\ Cardinality(DOMAIN c.cache) >= maxEntries /\ c.lruIdx # <<>>
  THEN <<c.lruIdx[1]>>
  ELSE <<>>

\* the items Set evicts before inserting a new item: the LRU tail while the cache is full
SetEvicts(c, id, maxEntries) ==
  IF id \notin DOMAIN c.cache /\ maxEntries # -1
     /\ Cardinality(DOMAIN c.cache) >= maxEntries /\ c.lruIdx # <<>>
  THEN <<c.lruIdx[Len(c.lruIdx)]>>
  ELSE <<>>

\* Cache.Set on the in-memory structures (after the eviction)
set(c, id, v, grpIDs, t, ttl) ==
  LET exp == IF ttl > 0 THEN t + ttl ELSE ZeroTime
  IN  [cache  |-> [k \in DOMAIN c.cache \cup {id} |->
                     IF k = id THEN cachedItem(v, grpIDs, exp) ELSE c.cache[k]],
       lruIdx |-> <<id>> \o SeqWithout(c.lruIdx, id),
       groups |-> addItemToGroups(GroupsWithout(c.groups, id), id, grpIDs)]

\* all orders in which the items of a set can be visited (range over a Go map)
Orders(S) == {s \in [1..Cardinality(S) -> S] : Range(s) = S}

TheCache == [cache |-> cache, lruIdx |-> lruIdx, groups |-> groups]

----------------------------------------------------------------------------
(* A mutation of the cache instance and what it tells the collector        *)

SetOp(id, v, g)     == [verb |-> "Set", id |-> id, value |-> v, grpIDs |-> g, order |-> <<>>]
RemoveOp(id)        == [verb |-> "Remove", id |-> id, value |-> ZeroValue, grpIDs |-> <<>>, order |-> <<>>]
RemoveGroupOp(g, o) == [verb |-> "RemoveGroup", id |-> "", value |-> ZeroValue, grpIDs |-> <<g>>, order |-> o]
ClearOp(o)          == [verb |-> "Clear", id |-> "", value |-> ZeroValue, grpIDs |-> <<>>, order |-> o]

GetOp(id)           == [verb |-> "Get", id |-> id, value |-> ZeroValue, grpIDs |-> <<>>, order |-> <<>>]
ExpireOp(id)        == [verb |-> "cleanExpired", id |-> id, value |-> ZeroValue, grpIDs |-> <<>>, order |-> <<id>>]
NoOp                == [verb |-> None, id |-> "", value |-> ZeroValue, grpIDs |-> <<>>, order |-> <<>>]

GroupMembers(grp, g) == IF g \in DOMAIN grp THEN grp[g] ELSE {}

\* the items op removes from cache c, in the order in which onEvicted is fired for them
Evicted(c, op, maxEntries) ==
  CASE op.verb = "Set"    -> SetEvicts(c, op.id, maxEntries)
    [] op.verb = "Remove" -> IF op.id \in DOMAIN c.cache THEN <<op.id>> ELSE <<>>
    [] OTHER              -> op.order

\* the in-memory structures after op
Mutate(c, op, t, conf) ==
  LET c1 == removeAll(c, Evicted(c, op, conf.maxEntries))
  IN  IF op.verb = "Set" THEN set(c1, op.id, op.value, op.grpIDs, t, conf.ttl) ELSE c1

\* the onEvicted router of newCacheFromReader, fired for every removed item
RECURSIVE onEvicted(_, _, _)
onEvicted(coll, ids, dumpInterval) ==
  IF ids = <<>> THEN [collection |-> coll, write |-> <<>>]
  ELSE LET one  == storeRemoveEntity(coll, Head(ids), dumpInterval)
           rest == onEvicted(one.collection, Tail(ids), dumpInterval)
       IN  [collection |-> rest.collection, write |-> one.write \o rest.write]

\* Cache.Set tells the collector: collect the SET (collectSet) or write it at once
noteSet(coll, id, item, dumpInterval) ==
  IF dumpInterval = -1
  THEN [collection |-> coll,
        write |-> <<OfflineCacheEntity(TRUE, id, item.value, item.groupIDs, item.expiryTime)>>]
  ELSE [collection |-> collect(coll, id), write |-> <<>>]

\* everything one mutation hands to the collector
Notify(coll, c, op, after, conf) ==
  LET ev == onEvicted(coll, Evicted(c, op, conf.maxEntries), conf.dumpInterval)
  IN  IF op.verb = "Set"
      THEN LET st == noteSet(ev.collection, op.id, after.cache[op.id], conf.dumpInterval)
           IN  [collection |-> st.collection, write |-> ev.write \o st.write]
      ELSE ev

\* a removal that fires no callback
NoCalls(c, ids) == <<>>

\* Cache.remove: the onEvicted callbacks are called with the id and the value of the item
onEvictedCalls(c, ids) == [x \in DOMAIN ids |-> <<ids[x], c.cache[ids[x]].value>>]

\* history of the engine: the operation, the callbacks fired so far and the
\* logical time of the last Set or Get of every item that is in the cache
Observed(h, c, op, after, maxEntries) ==
  IF ~h.engine THEN h
  ELSE [h EXCEPT !.op = [verb |-> op.verb, id |-> op.id, value |-> op.value,
                         grpIDs |-> op.grpIDs, order |-> op.order],
                 !.before = c,
                 !.fired = @ \o onEvictedCalls(c, Evicted(c, op, maxEntries)),
                 !.stamp = @ + 1,
                 !.use = [k \in DOMAIN after.cache |->
                            IF op.verb \in {"Set", "Get"} /\ k = op.id THEN h.stamp + 1 ELSE h.use[k]]]

\* the mutations applied to the items, in order: <<itemID, present afterwards, value>>
Events(c, op, maxEntries) ==
  LET ev == Evicted(c, op, maxEntries)
  IN  [x \in DOMAIN ev |-> <<ev[x], FALSE, ZeroValue>>]
        \o (IF op.verb = "Set" THEN <<<<op.id, TRUE, op.value>>>> ELSE <<>>)

----------------------------------------------------------------------------
(* Initial state: a fresh process on an empty instance folder, after       *)
(* newCacheFromReader has opened the first dump file                       *)

NoRw == [filePaths |-> <<>>, instance |-> EmptyInstance, tmpFilePaths |-> <<>>,
         todo |-> {}, i |-> 0, cur |-> NoPath, app |-> FALSE, off |-> 0, typed |-> FALSE]
NoMu == [wq |-> <<>>, stage |-> None]

NoHist == [faults |-> 0, failedIds |-> {}, ops |-> 0, rewrites |-> 0, track |-> FALSE, reopened |-> FALSE,
           rwOn |-> FALSE, rwPre |-> EmptyInstance, rwPost |-> EmptyInstance,
           rwFailed |-> None, rwDone |-> FALSE, rwFolder |-> EmptyInstance,
           crashed |-> FALSE, shut |-> FALSE, live |-> EmptyInstance,
           crashRw |-> FALSE, downFolder |-> EmptyInstance, recovered |-> EmptyInstance,
           applied |-> <<>>,
           calls |-> 0, shutdowns |-> 0, opsAtCall |-> 0, filesAtCall |-> EmptyInstance,
           cacheAtCall |-> EmptyCache,
           rwStartup |-> 0, rwShutdown |-> 0, panicked |-> FALSE,
           rwOps |-> 0, rwIdle |-> FALSE,
           uuids |-> {}, queued |-> 0, discarded |-> {}, done |-> {},
           reads |-> 0, txBefore |-> EmptyCache,
           valIn |-> <<>>, valFolder |-> EmptyInstance, valAfter |-> EmptyInstance,
           crashPc |-> None, crashAt |-> NoRw,
           clears |-> 0, clearArg |-> [nil |-> FALSE, ids |-> <<>>], clearBefore |-> <<>>,
           engine |-> FALSE, op |-> NoOp, fired |-> <<>>, use |-> EmptyCache, stamp |-> 0,
           before |-> [cache |-> EmptyCache, lruIdx |-> <<>>, groups |-> EmptyGroups],
           skipped |-> FALSE, sweeper |-> FALSE, early |-> {}, err |-> FALSE, at |-> NoPath, cut |-> {}, segs |-> <<>>, replayed |-> EmptyInstance, again |-> EmptyInstance,
           segments |-> FALSE, sinceSwap |-> <<>>, swapPath |-> Path(dumpFileName, 0, 1),
           batch |-> FALSE, opsAtDrain |-> 0, during |-> 0]

\* no constructor is running
NoBoot == [main |-> None, go |-> EmptyInstance, wg |-> 0, errChan |-> <<>>,
           done |-> FALSE, waiter |-> None, failed |-> {}]

\* no timer loop is running; rewriteInterval 0: no rewrite is ever asked for
NoHelper == [rewriteInterval |-> 0, writer |-> "off", rewriter |-> "off"]

\* make(map[string][]*transactionItem)
NoTransactions == [x \in {} |-> <<>>]

\* the other cache instances, empty
NoOthers == [ch \in OtherInstances |-> [cache |-> EmptyCache, lruIdx |-> <<>>, groups |-> EmptyGroups]]

\* a client that is in no call
NoTx == [id |-> None, i |-> 0, key |-> None]

Config(di, wl, me, ttl) == [dumpInterval |-> di, writeLimit |-> wl, maxEntries |-> me, ttl |-> ttl]

InitState(conf, h) ==
  /\ now = 1
  /\ phase = "up"
  /\ files = populateEncoder(EmptyInstance, 1).files
  /\ file = populateEncoder(EmptyInstance, 1).file
  /\ collection = EmptyInstance
  /\ cache = EmptyCache
  /\ lruIdx = <<>>
  /\ groups = EmptyGroups
  /\ cfg = conf
  /\ rewriteMux = None
  /\ fileMux = None
  /\ cacheMux = None
  /\ pc = [t \in Threads |-> "idle"]
  /\ rw = [t \in Rewriters |-> NoRw]
  /\ mu = [t \in Mutators |-> NoMu]
  /\ logErr = 0
  /\ boot = NoBoot
  /\ offlineHelper = NoHelper
  /\ transactionBuffer = NoTransactions
  /\ transBufMux = None
  /\ transactionMux = None
  /\ rlocks = {}
  /\ tx = [cl \in Clients |-> NoTx]
  /\ others = NoOthers
  /\ hist = h

InitWith(conf, track) == InitState(conf, [NoHist EXCEPT !.track = track])

\* the clock
Tick ==
  /\ now < MaxTime
  /\ now' = now + 1
  /\ UNCHANGED <<aux, phase, files, file, collection, cache, lruIdx, groups, cfg,
                 rewriteMux, fileMux, cacheMux, pc, rw, mu, logErr, boot, hist>>

----------------------------------------------------------------------------
(* TransCache.Set / Remove / RemoveGroup / Clear with commit = true        *)

\* a lock that excludes nobody
cacheMuxNoLock(t) == cacheMux' = t

\* tc.cacheMux.Lock()
cacheMuxLock(t) == cacheMux = None /\ rlocks = {} /\ cacheMux' = t

\* the history of a record reported as written
Written(h, oce) ==
  [h EXCEPT !.sinceSwap = IF h.segments THEN Append(@, oce) ELSE @,
            !.rwPre = ApplyEntity(@, oce), !.rwPost = ApplyEntity(@, oce),
            !.rwDone = FALSE]

\* the mutation under the locks: the structures change, the collector is told
Begin(t, op) ==
  /\ phase = "up"
  /\ pc[t] = "idle"
  /\ hist.ops < MaxOps
  /\ LET after == Mutate(TheCache, op, now, cfg)
         note  == Notify(collection, TheCache, op, after, cfg)
     IN  /\ cache' = after.cache
         /\ lruIdx' = after.lruIdx
         /\ groups' = after.groups
         /\ collection' = note.collection
         /\ hist' = [Observed(hist, TheCache, op, after, cfg.maxEntries)
                        EXCEPT !.ops = @ + 1,
                               !.applied = IF hist.track
                                           THEN @ \o Events(TheCache, op, cfg.maxEntries)
                                           ELSE @]
         /\ IF note.write = <<>>
            THEN /\ cacheMux = None
                 /\ rlocks = {}
                 /\ UNCHANGED <<cacheMux, pc, mu>>
            ELSE /\ cacheMuxLock(t)
                 /\ pc' = [pc EXCEPT ![t] = "write"]
                 /\ mu' = [mu EXCEPT ![t] = [wq |-> note.write,
                             stage |-> IF cfg.writeLimit = -1 THEN "encode" ELSE "check"]]
  /\ UNCHANGED <<aux, boot, now, phase, files, file, cfg, rewriteMux, fileMux, rw, logErr>>

Set(t, id, v, g) == Begin(t, SetOp(id, v, g))

Remove(t, id) == id \in DOMAIN cache /\ Begin(t, RemoveOp(id))

RemoveGroup(t, g) ==
  /\ g \in DOMAIN groups
  /\ \E o \in Orders(GroupMembers(groups, g)) : Begin(t, RemoveGroupOp(g, o))

Clear(t) ==
  /\ cache # EmptyCache
  /\ \E o \in Orders(DOMAIN cache) : Begin(t, ClearOp(o))

\* the next record of the mutation, or its end (the locks are released)
Written1(t) ==
  IF Len(mu[t].wq) = 1
  THEN /\ pc' = [pc EXCEPT ![t] = "idle"]
       /\ mu' = [mu EXCEPT ![t] = NoMu]
       /\ cacheMux' = None
  ELSE /\ mu' = [mu EXCEPT ![t] = [wq |-> Tail(@.wq),
                   stage |-> IF cfg.writeLimit = -1 THEN "encode" ELSE "check"]]
       /\ UNCHANGED <<pc, cacheMux>>

\* what writeEntity and its caller log when the write of oce fails
FailureLogs(oce) == IF oce.IsSet THEN 1 ELSE 2

\* writeEntity, first critical section: checkAndRotateFile
WriteCheck(t) ==
  /\ phase = "up"
  /\ pc[t] = "write"
  /\ mu[t].stage = "check"
  /\ fileMux = None
  /\ LET r == checkAndRotateFile(files, file, now, cfg.writeLimit)
     IN  /\ files' = r.files
         /\ file' = r.file
         /\ hist' = [hist EXCEPT !.reopened = @ \/ (r.file # file /\ Reopens(files, now))]
         /\ IF r.err
            THEN /\ logErr' = logErr + 1
                 /\ Written1(t)
            ELSE /\ mu' = [mu EXCEPT ![t].stage = "encode"]
                 /\ UNCHANGED <<logErr, pc, cacheMux>>
  /\ UNCHANGED <<aux, boot, now, phase, collection, cache, lruIdx, groups, cfg,
                 rewriteMux, fileMux, rw>>

\* writeEntity, second critical section: encodeAndWrite; ok = FALSE is an I/O error
WriteEncode(t, ok) ==
  /\ phase = "up"
  /\ pc[t] = "write"
  /\ mu[t].stage = "encode"
  /\ fileMux = None
  /\ LET oce == Head(mu[t].wq)
         r   == encodeAndWrite(files, file, oce)
     IN  IF ok /\ file.open
         THEN /\ files' = r.files
              /\ file' = r.file
              /\ hist' = Written(hist, oce)
              /\ UNCHANGED logErr
         ELSE /\ logErr' = logErr + FailureLogs(oce)
              /\ UNCHANGED <<files, file, hist>>
  /\ Written1(t)
  /\ UNCHANGED <<aux, boot, now, phase, collection, cache, lruIdx, groups, cfg,
                 rewriteMux, fileMux, rw>>

----------------------------------------------------------------------------
(* OfflineCollector.rewriteFiles, one file-system step at a time           *)

tmpRewritePath == Path(tmpRewriteName, 0, 0)

\* a skip decided on the number of files alone
SkipOnCount(filePaths, size) ==
  Cardinality({x \in DOMAIN filePaths : filePaths[x].k # rewriteFileName}) = 1

\* shouldSkipRewrite: one file that is no 0Rewrite file, and the open dump file is empty
shouldSkipRewrite(filePaths, size) ==
  /\ Cardinality({x \in DOMAIN filePaths : filePaths[x].k # rewriteFileName}) = 1
  /\ size = 0

\* a rewrite lock that excludes nobody
rewriteMuxNoLock(t) == rewriteMux' = t

\* coll.rewriteMux.Lock()
rewriteMuxLock(t) == rewriteMux = None /\ rewriteMux' = t

\* rewriteFiles returns
Return(t) ==
  /\ rewriteMux' = None
  /\ pc' = [pc EXCEPT ![t] = "idle"]
  /\ rw' = [rw EXCEPT ![t] = NoRw]

\* the deferred clean-up of rewriteFiles, run when its err is not nil
RemoveTmpFiles(fs, tmpFilePaths) ==
  [files  |-> WithoutFiles(fs, Range(tmpFilePaths)),
   failed |-> Cardinality({x \in DOMAIN tmpFilePaths :
                 \/ tmpFilePaths[x] \notin DOMAIN fs
                 \/ \E y \in 1..(x - 1) : tmpFilePaths[y] = tmpFilePaths[x]})]

\* the position after the loop that writes the temp files
AfterEncode(filePaths) ==
  IF \E x \in DOMAIN filePaths : filePaths[x].k = rewriteFileName THEN "renameOld" ELSE "renameTmp"

\* a write at offset off (in records) of a file opened without O_APPEND and without O_TRUNC
WriteAt(content, off, w) ==
  IF off < Len(content) THEN [content EXCEPT ![off + 1] = w] ELSE Append(content, w)

\* a thread calls rewriteFiles
RewriteFiles(t) ==
  /\ phase = "up"
  /\ pc[t] = "idle"
  /\ hist.rewrites < MaxRewrites
  /\ pc' = [pc EXCEPT ![t] = "lock"]
  /\ hist' = [hist EXCEPT !.rewrites = @ + 1]
  /\ UNCHANGED <<aux, boot, now, phase, files, file, collection, cache, lruIdx, groups, cfg,
                 rewriteMux, fileMux, cacheMux, rw, mu, logErr>>

\* it enters once it holds the rewrite lock
Enter(t) ==
  /\ phase = "up"
  /\ pc[t] = "lock"
  /\ rewriteMuxLock(t)
  /\ pc' = [pc EXCEPT ![t] = "walk"]
  /\ UNCHANGED <<aux, boot, now, phase, files, file, collection, cache, lruIdx, groups, cfg,
                 fileMux, cacheMux, rw, mu, logErr, hist>>

\* getFilePathsAndInstance, first half: walk the folder, decide, swap the dump file
SwapDumpFile(t) ==
  /\ phase = "up"
  /\ pc[t] = "walk"
  /\ fileMux = None
  /\ file.open
  /\ LET filePaths == getFilePaths(files)
         fresh     == populateEncoder(files, now)
     IN  IF shouldSkipRewrite(filePaths, FileSize(files, file))
         THEN /\ Return(t)
              /\ UNCHANGED <<files, file, fileMux>>
         ELSE /\ files' = fresh.files
              /\ file' = fresh.file
              /\ fileMux' = t
              /\ pc' = [pc EXCEPT ![t] = "read"]
              /\ rw' = [rw EXCEPT ![t].filePaths = filePaths]
              /\ UNCHANGED rewriteMux
  /\ UNCHANGED <<aux, boot, now, phase, collection, cache, lruIdx, groups, cfg, cacheMux, mu, logErr>>

\* the step with its history
Walk(t) ==
  /\ SwapDumpFile(t)
  /\ LET filePaths == getFilePaths(files)
         fresh     == populateEncoder(files, now)
     IN  hist' = IF shouldSkipRewrite(filePaths, FileSize(files, file))
                 THEN [hist EXCEPT !.skipped = TRUE]
                 ELSE [hist EXCEPT
                         !.reopened = @ \/ Reopens(files, now),
                         !.sinceSwap = <<>>,
                         !.swapPath = IF hist.segments THEN fresh.file.path ELSE @,
                         !.rwOn = TRUE, !.rwFailed = None, !.rwDone = FALSE,
                         !.rwFolder = files,
                         !.rwOps = hist.ops,
                         !.rwIdle = \A m \in Mutators : pc[m] = "idle",
                         !.rwPre = readInstanceFromFiles(files, validateFilePaths(filePaths)).instance,
                         !.rwPost = readInstanceFromFiles(files, filePaths).instance]

\* getFilePathsAndInstance, second half: replay the files; then open tmpRewrite
Read(t) ==
  /\ phase = "up"
  /\ pc[t] = "read"
  /\ fileMux = t
  /\ fileMux' = None
  /\ LET r == readInstanceFromFiles(files, rw[t].filePaths)
     IN  IF r.err
         THEN /\ Return(t)
              /\ logErr' = logErr + 1
              /\ hist' = [hist EXCEPT !.rwOn = FALSE]
              /\ UNCHANGED files
         ELSE /\ files' = IF tmpRewritePath \in DOMAIN files THEN files
                          ELSE WithFile(files, tmpRewritePath, <<>>)
              /\ rw' = [rw EXCEPT ![t] = [@ EXCEPT
                          !.instance = r.instance, !.tmpFilePaths = <<tmpRewritePath>>,
                          !.todo = DOMAIN r.instance, !.cur = tmpRewritePath,
                          !.app = FALSE, !.off = 0, !.i = 1, !.typed = FALSE]]
              /\ pc' = [pc EXCEPT ![t] =
                          IF DOMAIN r.instance = {} THEN AfterEncode(rw[t].filePaths) ELSE "encode"]
              /\ UNCHANGED <<rewriteMux, logErr, hist>>
  /\ UNCHANGED <<aux, boot, now, phase, file, collection, cache, lruIdx, groups, cfg, cacheMux, mu>>

\* the file is closed and rewriteFiles returns; its err decides whether the
\* deferred clean-up removes the temp files
Abort(t, fs, tmpFilePaths, errSet, why) ==
  /\ Return(t)
  /\ files' = IF errSet THEN RemoveTmpFiles(fs, tmpFilePaths).files ELSE fs
  /\ logErr' = logErr + 1 + (IF errSet THEN RemoveTmpFiles(fs, tmpFilePaths).failed ELSE 0)
  /\ hist' = [hist EXCEPT !.rwOn = FALSE, !.rwFailed = why]

\* whether the err of rewriteFiles is set when the step named by fault fails
ErrIsSet(fault) == fault = "open"

\* one iteration of the loop over the instance: rotate the temp file when it
\* exceeds writeLimit, then encodeAndWrite the entity of item k
EncodeTmp(t, k, fault) ==
  /\ phase = "up"
  /\ pc[t] = "encode"
  /\ k \in rw[t].todo
  /\ LET full   == /\ cfg.writeLimit > 0
                   /\ rw[t].cur \in DOMAIN files
                   /\ Len(files[rw[t].cur]) * RecSize > cfg.writeLimit * MiB
         next   == Path(tmpRewriteName, 0, now)
         paths  == IF full /\ fault # "close" THEN Append(rw[t].tmpFilePaths, next)
                   ELSE rw[t].tmpFilePaths
         opened == IF full /\ fault \notin {"close", "open"} /\ next \notin DOMAIN files
                   THEN WithFile(files, next, <<>>) ELSE files
         cur    == IF full THEN next ELSE rw[t].cur
         app    == full \/ rw[t].app
         off    == IF full THEN 0 ELSE rw[t].off
         w      == Encode(rw[t].instance[k], full \/ ~rw[t].typed)
     IN  /\ fault \in {"close", "open"} => full
         /\ IF fault # "none"
            THEN /\ Abort(t, opened, paths, ErrIsSet(fault), fault)
            ELSE /\ cur \in DOMAIN opened
                 /\ files' = WithFile(opened, cur,
                               IF app THEN Append(opened[cur], w) ELSE WriteAt(opened[cur], off, w))
                 /\ rw' = [rw EXCEPT ![t] = [@ EXCEPT
                             !.tmpFilePaths = paths, !.cur = cur, !.app = app,
                             !.off = off + 1, !.todo = @ \ {k}, !.typed = TRUE]]
                 /\ pc' = [pc EXCEPT ![t] =
                             IF rw[t].todo = {k} THEN AfterEncode(rw[t].filePaths) ELSE "encode"]
                 /\ UNCHANGED <<rewriteMux, logErr, hist>>
  /\ UNCHANGED <<aux, boot, now, phase, file, collection, cache, lruIdx, groups, cfg,
                 fileMux, cacheMux, mu>>

\* rename the next old 0Rewrite file to oldRewrite<index>
RenameOld(t) ==
  /\ phase = "up"
  /\ pc[t] = "renameOld"
  /\ LET fp  == rw[t].filePaths
         x   == CHOOSE y \in DOMAIN fp :
                  fp[y].k = rewriteFileName /\ \A z \in 1..(y - 1) : fp[z].k # rewriteFileName
         dst == Path(oldRewriteName, x - 1, 0)
         upd == [fp EXCEPT ![x] = dst]
     IN  IF fp[x] \notin DOMAIN files
         THEN Abort(t, files, rw[t].tmpFilePaths, TRUE, "rename")
         ELSE /\ files' = WithFile(WithoutFiles(files, {fp[x]}), dst, files[fp[x]])
              /\ rw' = [rw EXCEPT ![t].filePaths = upd]
              /\ pc' = [pc EXCEPT ![t] = AfterEncode(upd)]
              /\ UNCHANGED <<rewriteMux, logErr, hist>>
  /\ UNCHANGED <<aux, boot, now, phase, file, collection, cache, lruIdx, groups, cfg,
                 fileMux, cacheMux, mu>>

\* rename the next temp file to 0Rewrite<index>_<millisecond>
RenameTmp(t) ==
  /\ phase = "up"
  /\ pc[t] = "renameTmp"
  /\ LET x   == rw[t].i
         src == rw[t].tmpFilePaths[x]
         dst == Path(rewriteFileName, x - 1, now)
         end == x = Len(rw[t].tmpFilePaths)
     IN  IF src \notin DOMAIN files
         THEN Abort(t, files, rw[t].tmpFilePaths, TRUE, "rename")
         ELSE /\ files' = WithFile(WithoutFiles(files, {src}), dst, files[src])
              /\ IF end /\ rw[t].filePaths = <<>>
                 THEN Return(t) /\ hist' = [hist EXCEPT !.rwOn = FALSE, !.rwDone = TRUE]
                 ELSE /\ rw' = [rw EXCEPT ![t].i = IF end THEN 1 ELSE x + 1]
                      /\ pc' = [pc EXCEPT ![t] = IF end THEN "delete" ELSE "renameTmp"]
                      /\ UNCHANGED <<rewriteMux, hist>>
              /\ UNCHANGED logErr
  /\ UNCHANGED <<aux, boot, now, phase, file, collection, cache, lruIdx, groups, cfg,
                 fileMux, cacheMux, mu>>

\* remove the next file that the rewrite has folded into the new 0Rewrite files
Delete(t) ==
  /\ phase = "up"
  /\ pc[t] = "delete"
  /\ LET x   == rw[t].i
         p   == rw[t].filePaths[x]
         r   == RemovePaths(files, file, {p})
     IN  /\ files' = r.files
         /\ file' = r.file
         /\ logErr' = IF p \in DOMAIN files THEN logErr ELSE logErr + 1
         /\ IF x = Len(rw[t].filePaths)
            THEN Return(t) /\ hist' = [hist EXCEPT !.rwOn = FALSE, !.rwDone = TRUE]
            ELSE /\ rw' = [rw EXCEPT ![t].i = x + 1]
                 /\ UNCHANGED <<rewriteMux, pc, hist>>
  /\ UNCHANGED <<aux, boot, now, phase, collection, cache, lruIdx, groups, cfg,
                 fileMux, cacheMux, mu>>

----------------------------------------------------------------------------
(* Crash of the process, and the next start: newCacheFromReader            *)

\* the process ends: its memory, locks and threads are gone, the folder fs stays
Down(fs) ==
  /\ phase' = "down"
  /\ files' = fs
  /\ file' = NoFile
  /\ collection' = EmptyInstance
  /\ cache' = EmptyCache
  /\ lruIdx' = <<>>
  /\ groups' = EmptyGroups
  /\ rewriteMux' = None
  /\ fileMux' = None
  /\ cacheMux' = None
  /\ pc' = [t \in Threads |-> "idle"]
  /\ rw' = [t \in Rewriters |-> NoRw]
  /\ mu' = [t \in Mutators |-> NoMu]

\* the process is killed between two steps
Crash ==
  /\ phase = "up"
  /\ Down(files)
  /\ hist' = [hist EXCEPT !.crashRw = hist.rwOn, !.rwOn = FALSE, !.crashed = TRUE,
                          !.downFolder = files,
                          !.crashPc = pc["r1"], !.crashAt = rw["r1"]]
  /\ UNCHANGED <<aux, boot, now, cfg, logErr>>

\* getFilePathsAndInstance when the dump file has been closed by Shutdown:
\* Stat returns no FileInfo, so the test of its size panics when it is made
\* (one file that is no 0Rewrite file); otherwise Close fails, which is logged,
\* and the rewrite is skipped
WalkClosed(t) ==
  /\ phase = "up"
  /\ pc[t] = "walk"
  /\ fileMux = None
  /\ ~file.open
  /\ LET filePaths == getFilePaths(files)
     IN  IF Cardinality({x \in DOMAIN filePaths : filePaths[x].k # rewriteFileName}) = 1
         THEN /\ Down(files)
              /\ hist' = [hist EXCEPT !.panicked = TRUE, !.rwOn = FALSE]
              /\ UNCHANGED logErr
         ELSE /\ Return(t)
              /\ logErr' = logErr + 1
              /\ hist' = [hist EXCEPT !.skipped = TRUE]
              /\ UNCHANGED <<phase, files, file, collection, cache, lruIdx, groups,
                             fileMux, cacheMux, mu>>
  /\ UNCHANGED <<aux, boot, now, cfg>>

\* the process is killed inside encodeAndWrite, when a part of the record has
\* reached the file
CrashAppend(t) ==
  /\ phase = "up"
  /\ pc[t] = "write"
  /\ mu[t].stage = "encode"
  /\ fileMux = None
  /\ file.open /\ file.linked
  /\ LET part == Truncated(Encode(Head(mu[t].wq), ~file.typed))
         fs   == WithFile(files, file.path, Append(files[file.path], part))
     IN  /\ Down(fs)
         /\ hist' = [hist EXCEPT !.crashRw = hist.rwOn, !.rwOn = FALSE, !.crashed = TRUE,
                                 !.downFolder = fs]
  /\ UNCHANGED <<aux, boot, now, cfg, logErr>>

\* closeFile: close the file and delete it if it is empty
closeFile(fs, h) ==
  IF ~h.open THEN [files |-> fs, err |-> TRUE]
  ELSE IF FileSize(fs, h) = 0
       THEN [files |-> WithoutFiles(fs, {h.path}), err |-> ~h.linked]
       ELSE [files |-> fs, err |-> FALSE]

\* TransCache.Shutdown with dumpInterval = -1 and no rewrite at shutdown,
\* called when the mutations have returned
Shutdown ==
  /\ phase = "up"
  /\ cfg.dumpInterval = -1
  /\ \A t \in Threads : pc[t] = "idle"
  /\ Down(closeFile(files, file).files)
  /\ logErr' = logErr + (IF closeFile(files, file).err THEN 1 ELSE 0)
  /\ hist' = [hist EXCEPT !.shut = TRUE, !.live = TheCache,
                          !.downFolder = closeFile(files, file).files]
  /\ UNCHANGED <<aux, boot, now, cfg>>

\* toCachedItem
toCachedItem(oce) == cachedItem(oce.Value, oce.GroupIDs, oce.ExpiryTime)

\* the cache filled from the recovered instance, visited in the order `order`
RECURSIVE FromInstance(_, _, _)
FromInstance(c, inst, order) ==
  IF order = <<>> THEN c
  ELSE LET id == Head(order)
           it == toCachedItem(inst[id])
       IN  FromInstance(
             [cache  |-> [k \in DOMAIN c.cache \cup {id} |-> IF k = id THEN it ELSE c.cache[k]],
              lruIdx |-> <<id>> \o SeqWithout(c.lruIdx, id),
              groups |-> addItemToGroups(c.groups, id, it.groupIDs)],
             inst, Tail(order))

\* newCacheFromReader: clean the folder, replay it, fill the cache, open a dump file
newCacheFromReader ==
  LET paths == getFilePaths(files)
      valid == validateFilePaths(paths)
      clean == WithoutFiles(files, InvalidPaths(paths))
      r     == readInstanceFromFiles(clean, valid)
      fresh == populateEncoder(clean, now)
  IN  IF r.err
      THEN /\ phase' = "failed"
           /\ files' = clean
           /\ UNCHANGED <<file, cache, lruIdx, groups, hist>>
      ELSE /\ phase' = "recovered"
           /\ files' = fresh.files
           /\ file' = fresh.file
           /\ \E order \in Orders(DOMAIN r.instance) :
                LET c == FromInstance([cache |-> EmptyCache, lruIdx |-> <<>>, groups |-> EmptyGroups],
                                      r.instance, order)
                IN  cache' = c.cache /\ lruIdx' = c.lruIdx /\ groups' = c.groups
           /\ hist' = [hist EXCEPT !.recovered = r.instance]

Restart ==
  /\ phase = "down"
  /\ newCacheFromReader
  /\ UNCHANGED <<aux, boot, now, collection, cfg, rewriteMux, fileMux, cacheMux, pc, rw, mu, logErr>>

----------------------------------------------------------------------------
(* Synchronous mode (dumpInterval = -1) with rewrites and a crash          *)

WriteLimits == {-1, 1}

InitRewrite == \E wl \in WriteLimits : InitWith(Config(-1, wl, -1, 0), FALSE)

NextRewrite ==
  \/ Tick
  \/ \E id \in ItemIDs, v \in Values : Set("m1", id, v, <<>>)
  \/ \E id \in ItemIDs : Remove("m1", id)
  \/ WriteCheck("m1")
  \/ WriteEncode("m1", TRUE)
  \/ RewriteFiles("r1")
  \/ Enter("r1")
  \/ Walk("r1")
  \/ Read("r1")
  \/ \E k \in ItemIDs : EncodeTmp("r1", k, "none")
  \/ RenameOld("r1")
  \/ RenameTmp("r1")
  \/ Delete("r1")
  \/ Crash
  \/ Restart

SpecRewrite == InitRewrite /\ [][NextRewrite]_vars

----------------------------------------------------------------------------
(* Claims about the rewrite and the recovery                               *)

\* C1: after a crash inside rewriteFiles, the start-up clean-up and replay give
\* the replay of the folder before the rewrite or of the folder after it
\* (either with the records written since), never anything else; stated for
\* the runs in which no dump file name was opened twice.
C1_CrashSafety ==
  (hist.crashRw /\ ~hist.reopened /\ phase \in {"recovered", "failed"}) =>
     /\ phase = "recovered"
     /\ hist.recovered \in {hist.rwPre, hist.rwPost}

\* the replay of a folder in directory order, as a compaction or a reader does it
Replay(fs) == readInstanceFromFiles(fs, getFilePaths(fs))

\* C2: when rewriteFiles has succeeded, the replay of the folder is the replay
\* of the folder at the start of the compaction followed by the records
\* appended while it ran.
C2_CompactionEquivalence ==
  (phase = "up" /\ hist.rwDone) =>
     Replay(files) = [err |-> FALSE, instance |-> hist.rwPost]

\* rewriteFiles has succeeded, with no write limit, and no mutation was made
\* or in flight from its start on
CompactedAlone ==
  /\ phase = "up"
  /\ hist.rwDone
  /\ cfg.writeLimit = -1
  /\ hist.rwIdle
  /\ hist.ops = hist.rwOps

\* the 0Rewrite files hold no set record of an item that is not in the cache
NoSetOfRemoved(fs) ==
  \A p \in DOMAIN fs : p.k = rewriteFileName =>
     \A x \in DOMAIN fs[p] :
        Decode(fs[p][x]).IsSet => Decode(fs[p][x]).ItemID \in DOMAIN cache

PathsOfKind(fs, k) == SortPaths({p \in DOMAIN fs : p.k = k})

\* a folder left with 0Rewrite, oldRewrite and timestamped files
HasAllKinds(fs) ==
  \A k \in {rewriteFileName, oldRewriteName, dumpFileName} : \E p \in DOMAIN fs : p.k = k

\* C4: at start-up on such a folder the 0Rewrite files are deleted and not
\* replayed, and the oldRewrite records are applied before the records of the
\* timestamped segments; stated for the runs in which no dump file name was
\* opened twice.
C4_OldRewriteFirst ==
  (phase = "recovered" /\ ~hist.reopened /\ HasAllKinds(hist.downFolder)) =>
     /\ \A p \in DOMAIN hist.downFolder : p.k = rewriteFileName => p \notin DOMAIN files
     /\ hist.recovered =
          readInstanceFromFiles(hist.downFolder,
             PathsOfKind(hist.downFolder, oldRewriteName)
               \o PathsOfKind(hist.downFolder, dumpFileName)).instance

\* such a start-up happens
C4_Witness == phase = "recovered" /\ ~hist.reopened /\ HasAllKinds(hist.downFolder)

----------------------------------------------------------------------------
(* Rewrites that fail, and two callers of rewriteFiles                     *)

Faults == {"none", "close", "open", "encode"}

NextRewriteErr ==
  \/ Tick
  \/ \E id \in ItemIDs : Set("m1", id, "v1", <<>>)
  \/ WriteCheck("m1")
  \/ WriteEncode("m1", TRUE)
  \/ RewriteFiles("r1")
  \/ Enter("r1")
  \/ Walk("r1")
  \/ Read("r1")
  \/ \E k \in ItemIDs, fault \in Faults : EncodeTmp("r1", k, fault)
  \/ RenameOld("r1")
  \/ RenameTmp("r1")
  \/ Delete("r1")

SpecRewriteErr == InitRewrite /\ [][NextRewriteErr]_vars

InitRewrite2 == InitWith(Config(-1, -1, -1, 0), FALSE)

\* two callers of rewriteFiles beside a writer
NextRewrite2 ==
  \/ Tick
  \/ \E id \in ItemIDs : Set("m1", id, "v1", <<>>)
  \/ WriteEncode("m1", TRUE)
  \/ \E t \in Rewriters :
       \/ RewriteFiles(t)
       \/ Enter(t)
       \/ Walk(t)
       \/ Read(t)
       \/ \E k \in ItemIDs : EncodeTmp(t, k, "none")
       \/ RenameOld(t)
       \/ RenameTmp(t)
       \/ Delete(t)

SpecRewrite2 == InitRewrite2 /\ [][NextRewrite2]_vars

\* the tmpRewrite files of a folder
TmpFiles(fs) == {p \in DOMAIN fs : p.k = tmpRewriteName}

\* C6: when rewriteFiles has failed while producing the temp files, no
\* tmpRewrite file is left and every file of the folder it started from is
\* still there.
C6_FailedRewriteRolledBack ==
  (hist.rwFailed \in {"close", "open", "encode"}) =>
     /\ TmpFiles(files) = {}
     /\ DOMAIN hist.rwFolder \subseteq DOMAIN files

\* a rewrite has failed while producing the temp files
C6_Witness == hist.rwFailed \in {"close", "open", "encode"}

\* the threads inside rewriteFiles, past its lock
Inside == {t \in Rewriters : pc[t] \notin {"idle", "lock"}}

\* C9: two calls of rewriteFiles never overlap: while one is between its walk
\* and its last rename or delete, the other is outside or waits for the lock.
C9_RewritesSerialized == Cardinality(Inside) <= 1

\* one caller waits for the lock while the other is deleting the input files
C9_Witness == \E t, u \in Rewriters : pc[t] = "delete" /\ pc[u] = "lock"

----------------------------------------------------------------------------
(* Synchronous mode: concurrent mutations, rotation, shutdown, crash       *)

TTLs == {0, TTL}

GroupLists == {<<>>, <<"g1">>}

InitSync == \E wl \in WriteLimits : InitWith(Config(-1, wl, -1, 0), TRUE)

InitDown == \E wl \in WriteLimits, ttl \in TTLs : InitWith(Config(-1, wl, -1, ttl), TRUE)

\* concurrent mutations
NextSync ==
  \/ Tick
  \/ \E t \in Mutators :
       \/ \E id \in ItemIDs, v \in Values, g \in GroupLists : Set(t, id, v, g)
       \/ \E id \in ItemIDs : Remove(t, id)
       \/ \E g \in GroupIDs : RemoveGroup(t, g)
       \/ Clear(t)
       \/ WriteCheck(t)
       \/ WriteEncode(t, TRUE)

SpecSync == InitSync /\ [][NextSync]_vars

\* mutations, then the end of the process and the next start
NextDown ==
  \/ Tick
  \/ \E id \in ItemIDs, v \in Values, g \in GroupLists : Set("m1", id, v, g)
  \/ \E id \in ItemIDs : Remove("m1", id)
  \/ \E g \in GroupIDs : RemoveGroup("m1", g)
  \/ Clear("m1")
  \/ WriteCheck("m1")
  \/ WriteEncode("m1", TRUE)
  \/ CrashAppend("m1")
  \/ Shutdown
  \/ Crash
  \/ Restart

SpecDown == InitDown /\ [][NextDown]_vars

\* C3: after Shutdown, the cache built by the next start has the items of the
\* live cache at shutdown, with their values, group ids and expiry times, and
\* the group index of those group ids.
C3_RoundTrip ==
  (hist.shut /\ phase \in {"recovered", "failed"}) =>
     /\ phase = "recovered"
     /\ cache = hist.live.cache
     /\ groups = hist.live.groups

\* the same, for the runs in which no dump file name was opened twice
C3_RoundTripFreshNames ==
  (hist.shut /\ ~hist.reopened /\ phase \in {"recovered", "failed"}) =>
     /\ phase = "recovered"
     /\ cache = hist.live.cache
     /\ groups = hist.live.groups

\* the records of the dump files, in directory order
RECURSIVE LogOf(_, _)
LogOf(fs, paths) ==
  IF paths = <<>> THEN <<>> ELSE fs[Head(paths)] \o LogOf(fs, Tail(paths))

\* the log as events <<itemID, set or removal, value>>
LogEvents(fs) ==
  LET log == LogOf(fs, getFilePaths(fs))
  IN  [x \in DOMAIN log |-> <<Decode(log[x]).ItemID, Decode(log[x]).IsSet, Decode(log[x]).Value>>]

ForId(evs, id) == SelectSeq(evs, LAMBDA e : e[1] = id)

IsPrefix(s, t) == Len(s) <= Len(t) /\ \A x \in DOMAIN s : s[x] = t[x]

Idle == \A t \in Mutators : pc[t] = "idle"

\* C7: the records of an item are in the log in the order in which the
\* mutations were applied to the cache; when no mutation is in flight the log
\* holds them all and the last record of the item agrees with its live state.
C7_LogOrder ==
  phase = "up" =>
    \A id \in ItemIDs :
      LET logged  == ForId(LogEvents(files), id)
          applied == ForId(hist.applied, id)
      IN  /\ IsPrefix(logged, applied)
          /\ Idle =>
               /\ logged = applied
               /\ (id \in DOMAIN cache) <=> (Len(logged) > 0 /\ logged[Len(logged)][2])
               /\ (id \in DOMAIN cache /\ Len(logged) > 0) =>
                     logged[Len(logged)][3] = cache[id].value

\* two mutations of one item by two threads, both logged, across a rotation
C7_Witness ==
  /\ phase = "up" /\ Idle
  /\ Cardinality(DOMAIN files) > 1
  /\ \E id \in ItemIDs : Len(ForId(LogEvents(files), id)) > 1

\* the folder without the records of which only a part was written
Flushed(fs) == [p \in DOMAIN fs |-> SelectSeq(fs[p], LAMBDA w : w.whole)]

\* C8: after a crash at any moment, the next start succeeds and recovers the
\* replay of the records that were appended completely; stated for the runs
\* in which no dump file name was opened twice.
C8_CrashLosesInFlightOnly ==
  (hist.crashed /\ ~hist.reopened /\ phase \in {"recovered", "failed"}) =>
     /\ phase = "recovered"
     /\ hist.recovered = Replay(Flushed(hist.downFolder)).instance

----------------------------------------------------------------------------
(* NewTransCacheWithOfflineCollector: one goroutine per cache instance,    *)
(* the goroutine that waits for them, and the select of the caller.  The   *)
(* folder of instance "x" is `files`; the folder of the default instance,  *)
(* which the constructor always adds, is empty.                            *)

Instances == {"x", DefaultCacheInstance}

\* the records a killed run may have left in its dump file
StartEntities ==
  {OfflineCacheEntity(TRUE, "a", "v1", ZeroGroups, ZeroTime),
   OfflineCacheEntity(TRUE, "b", "v2", ZeroGroups, ZeroTime),
   OfflineCacheEntity(FALSE, "a", ZeroValue, ZeroGroups, ZeroTime)}

\* the folder after the appends of oces to the first dump file
RECURSIVE FolderOf(_, _)
FolderOf(st, oces) ==
  IF oces = <<>> THEN st.files
  ELSE LET r == encodeAndWrite(st.files, st.file, Head(oces))
       IN  FolderOf(r, Tail(oces))

\* the folder with the last record of path p cut short
CutLast(fs, p) ==
  WithFile(fs, p, [fs[p] EXCEPT ![Len(fs[p])] = Truncated(@)])

StartFolders ==
  LET runs == UNION {[1..n -> StartEntities] : n \in 1..2}
      whole == {FolderOf(populateEncoder(EmptyInstance, 1), s) : s \in runs}
  IN  whole \cup {CutLast(fs, Path(dumpFileName, 0, 1)) : fs \in whole}

InitStartup ==
  /\ now = 2
  /\ phase = "down"
  /\ files \in StartFolders
  /\ file = NoFile
  /\ collection = EmptyInstance
  /\ cache = EmptyCache
  /\ lruIdx = <<>>
  /\ groups = EmptyGroups
  /\ cfg = Config(-1, -1, -1, 0)
  /\ rewriteMux = None
  /\ fileMux = None
  /\ cacheMux = None
  /\ pc = [t \in Threads |-> "idle"]
  /\ rw = [t \in Rewriters |-> NoRw]
  /\ mu = [t \in Mutators |-> NoMu]
  /\ logErr = 0
  /\ boot = [NoBoot EXCEPT !.main = "spawn", !.go = [ch \in Instances |-> None]]
  /\ offlineHelper = NoHelper
  /\ transactionBuffer = NoTransactions
  /\ transBufMux = None
  /\ transactionMux = None
  /\ rlocks = {}
  /\ tx = [cl \in Clients |-> NoTx]
  /\ others = NoOthers
  /\ hist = NoHist

\* the loop over tc.cfg starts the goroutine of instance ch
Spawn(ch) ==
  /\ boot.main = "spawn"
  /\ boot.go[ch] = None
  /\ boot' = [boot EXCEPT !.go[ch] = "run", !.wg = @ + 1]
  /\ UNCHANGED <<aux, now, phase, files, file, collection, cache, lruIdx, groups, cfg,
                 rewriteMux, fileMux, cacheMux, pc, rw, mu, logErr, hist>>

\* the caller starts the goroutine that waits, and reaches its select
SpawnWaiter ==
  /\ boot.main = "spawn"
  /\ \A ch \in Instances : boot.go[ch] # None
  /\ boot' = [boot EXCEPT !.main = "select", !.waiter = "wait"]
  /\ UNCHANGED <<aux, now, phase, files, file, collection, cache, lruIdx, groups, cfg,
                 rewriteMux, fileMux, cacheMux, pc, rw, mu, logErr, hist>>

\* the goroutine of instance ch runs newCacheFromReader
ReplayInstance(ch) ==
  /\ boot.go[ch] = "run"
  /\ IF ch = DefaultCacheInstance
     THEN /\ boot' = [boot EXCEPT !.go[ch] = "install"]
          /\ UNCHANGED <<phase, files, file, cache, lruIdx, groups, hist>>
     ELSE /\ newCacheFromReader
          /\ boot' = IF phase' = "failed"
                     THEN [boot EXCEPT !.go[ch] = "send", !.failed = @ \cup {ch}]
                     ELSE [boot EXCEPT !.go[ch] = "install"]
  /\ UNCHANGED <<aux, now, collection, cfg, rewriteMux, fileMux, cacheMux, pc, rw, mu, logErr>>

\* errChan <- err, on a channel of capacity 1; then wg.Done()
Send(ch) ==
  /\ boot.go[ch] = "send"
  /\ Len(boot.errChan) < 1
  /\ boot' = [boot EXCEPT !.go[ch] = "done", !.errChan = Append(@, ch), !.wg = @ - 1]
  /\ UNCHANGED <<aux, now, phase, files, file, collection, cache, lruIdx, groups, cfg,
                 rewriteMux, fileMux, cacheMux, pc, rw, mu, logErr, hist>>

\* tc.cache[chInstance] = cache under tc.cacheMux; then wg.Done()
Install(ch) ==
  /\ boot.go[ch] = "install"
  /\ cacheMux = None
  /\ boot' = [boot EXCEPT !.go[ch] = "done", !.wg = @ - 1]
  /\ UNCHANGED <<aux, now, phase, files, file, collection, cache, lruIdx, groups, cfg,
                 rewriteMux, fileMux, cacheMux, pc, rw, mu, logErr, hist>>

\* RewriteAll runs rewriteFiles of the instance unless persistence or rewriting is off
RewriteAllRuns == cfg.dumpInterval # 0 /\ offlineHelper.rewriteInterval # 0

\* a rewriteInterval that asks for the rewrite at Shutdown, too
RewriteAtStartAndShutdown(ri) == ri \in {-1, -2}

\* the rewriteInterval that asks for one rewrite at the end of the start-up
RewriteAtStart(ri) == ri = -1

\* wg.Wait() returns and rewriteInterval asks for RewriteAll, which runs
\* rewriteFiles in goroutine r2 and waits for it
StartupRewriteAll ==
  /\ boot.waiter = "wait"
  /\ boot.wg = 0
  /\ RewriteAtStart(offlineHelper.rewriteInterval)
  /\ boot' = [boot EXCEPT !.waiter = "rewrite"]
  /\ IF RewriteAllRuns
     THEN /\ pc' = [pc EXCEPT !["r2"] = "lock"]
          /\ hist' = [hist EXCEPT !.rwStartup = @ + 1]
     ELSE UNCHANGED <<pc, hist>>
  /\ UNCHANGED <<aux, now, phase, files, file, collection, cache, lruIdx, groups, cfg,
                 rewriteMux, fileMux, cacheMux, rw, mu, logErr>>

\* wg.Wait() (and RewriteAll, if any) has returned and the goroutine closes done
CloseDone ==
  /\ \/ boot.waiter = "wait" /\ boot.wg = 0 /\ ~RewriteAtStart(offlineHelper.rewriteInterval)
     \/ boot.waiter = "rewrite" /\ pc["r2"] = "idle"
  /\ boot' = [boot EXCEPT !.waiter = "closed", !.done = TRUE]
  /\ UNCHANGED <<aux, now, phase, files, file, collection, cache, lruIdx, groups, cfg,
                 rewriteMux, fileMux, cacheMux, pc, rw, mu, logErr, hist>>

\* the select of the caller: one of the cases that are ready; the done case
\* starts the timer loops that the intervals ask for
Select ==
  /\ boot.main = "select"
  /\ \/ /\ boot.errChan # <<>>
        /\ boot' = [boot EXCEPT !.main = "err", !.errChan = Tail(@)]
        /\ UNCHANGED offlineHelper
     \/ /\ boot.done
        /\ boot' = [boot EXCEPT !.main = "ok"]
        /\ offlineHelper' = [offlineHelper EXCEPT
               !.writer   = IF cfg.dumpInterval > 0 THEN "loop" ELSE @,
               !.rewriter = IF offlineHelper.rewriteInterval > 0 THEN "loop" ELSE @]
  /\ UNCHANGED <<others, transactionBuffer, transBufMux, transactionMux, rlocks, tx, now, phase, files, file, collection, cache, lruIdx, groups, cfg,
                 rewriteMux, fileMux, cacheMux, pc, rw, mu, logErr, hist>>

NextStartup ==
  \/ \E ch \in Instances : Spawn(ch)
  \/ SpawnWaiter
  \/ \E ch \in Instances : ReplayInstance(ch)
  \/ \E ch \in Instances : Send(ch)
  \/ \E ch \in Instances : Install(ch)
  \/ CloseDone
  \/ Select

SpecStartup == InitStartup /\ [][NextStartup]_vars

\* C5: when the replay of an instance has failed, the constructor does not
\* return a TransCache.
C5_ReplayFailureIsFatal == boot.main = "ok" => boot.failed = {}

\* the replay of an instance has failed and the constructor has returned
C5_Witness == boot.failed # {} /\ boot.main \in {"ok", "err"}

----------------------------------------------------------------------------
(* Batched mode (dumpInterval > 0): the collection and its drain           *)

\* a writeEntity that reports no error
writeEntityNoError(fs, h, t, writeLimit, oce, ok) ==
  LET c == checkAndRotateFile(fs, h, t, writeLimit)
  IN  IF ~c.err /\ ok /\ c.file.open
      THEN [files |-> encodeAndWrite(c.files, c.file, oce).files,
            file  |-> encodeAndWrite(c.files, c.file, oce).file, err |-> FALSE, logs |-> 0]
      ELSE [files |-> c.files, file |-> c.file, err |-> FALSE, logs |-> 0]

\* writeEntity: checkAndRotateFile, then encodeAndWrite under the file lock;
\* ok = FALSE is an I/O error of the append, which is logged and returned
writeEntity(fs, h, t, writeLimit, oce, ok) ==
  LET c == checkAndRotateFile(fs, h, t, writeLimit)
  IN  IF c.err THEN [files |-> c.files, file |-> c.file, err |-> TRUE, logs |-> 0]
      ELSE IF ~ok \/ ~c.file.open
      THEN [files |-> c.files, file |-> c.file, err |-> TRUE, logs |-> 1]
      ELSE [files |-> encodeAndWrite(c.files, c.file, oce).files,
            file  |-> encodeAndWrite(c.files, c.file, oce).file, err |-> FALSE, logs |-> 0]

\* the record the drain builds for a collection entry from the live cache
DrainRecord(c, e) ==
  IF e.IsSet /\ e.ItemID \in DOMAIN c
  THEN OfflineCacheEntity(TRUE, e.ItemID, c[e.ItemID].value, c[e.ItemID].groupIDs,
                          c[e.ItemID].expiryTime)
  ELSE OfflineCacheEntity(FALSE, e.ItemID, ZeroValue, ZeroGroups, ZeroTime)

\* history: a drain starts after hist.ops mutations
DrainStarts(h) == IF h.batch THEN [h EXCEPT !.opsAtDrain = h.ops] ELSE h

\* history: a drain returns; during counts the mutations applied while it ran
DrainEnds(h) ==
  IF h.batch
  THEN [h EXCEPT !.during = h.ops - h.opsAtDrain]
  ELSE h

\* TransCache.WriteAll starts the drain of the instance
WriteAll(t) ==
  /\ phase = "up"
  /\ pc[t] = "idle"
  /\ cfg.dumpInterval # 0
  /\ pc' = [pc EXCEPT ![t] = "drain"]
  /\ hist' = DrainStarts(hist)
  /\ UNCHANGED <<aux, boot, now, phase, files, file, collection, cache, lruIdx, groups, cfg,
                 rewriteMux, fileMux, cacheMux, rw, mu, logErr>>

\* writeToFile, one entry: build its record, writeEntity, and drop the entry
\* from the collection when the write succeeded; a failed write ends the drain
\* and WriteAll logs the error
writeToFile(t, id, ok) ==
  /\ phase = "up"
  /\ pc[t] = "drain"
  /\ id \in DOMAIN collection
  /\ fileMux = None
  /\ cacheMux = None
  /\ ~ok => hist.faults < MaxFaults
  /\ LET r == writeEntity(files, file, now, cfg.writeLimit,
                          DrainRecord(cache, collection[id]), ok)
     IN  /\ files' = r.files
         /\ file' = r.file
         /\ IF r.err
            THEN /\ logErr' = logErr + r.logs + 1
                 /\ pc' = [pc EXCEPT ![t] = "idle"]
                 /\ UNCHANGED collection
            ELSE /\ collection' = [k \in DOMAIN collection \ {id} |-> collection[k]]
                 /\ UNCHANGED <<logErr, pc>>
         /\ LET h == [hist EXCEPT !.faults = IF ok THEN @ ELSE @ + 1,
                                  !.failedIds = IF ok THEN @ ELSE @ \cup {id}]
            IN  hist' = IF r.err THEN DrainEnds(h) ELSE h
  /\ UNCHANGED <<aux, boot, now, phase, cache, lruIdx, groups, cfg,
                 rewriteMux, fileMux, cacheMux, rw, mu>>

\* the collection is empty: the drain returns
Drained(t) ==
  /\ phase = "up"
  /\ pc[t] = "drain"
  /\ collection = EmptyInstance
  /\ pc' = [pc EXCEPT ![t] = "idle"]
  /\ hist' = DrainEnds(hist)
  /\ UNCHANGED <<aux, boot, now, phase, files, file, collection, cache, lruIdx, groups, cfg,
                 rewriteMux, fileMux, cacheMux, rw, mu, logErr>>

InitBatch == \E wl \in WriteLimits : InitWith(Config(1, wl, -1, 0), FALSE)

NextBatch ==
  \/ Tick
  \/ \E id \in ItemIDs, v \in Values : Set("m1", id, v, <<>>)
  \/ \E id \in ItemIDs : Remove("m1", id)
  \/ WriteAll("w1")
  \/ \E id \in ItemIDs, ok \in BOOLEAN : writeToFile("w1", id, ok)
  \/ Drained("w1")

SpecBatch == InitBatch /\ [][NextBatch]_vars

\* this step appends one record, of item id, to the log
Appends(id) ==
  LET before == LogEvents(files)
      after  == LogEvents(files')
  IN  /\ Len(after) = Len(before) + 1
      /\ IsPrefix(before, after)
      /\ after[Len(after)][1] = id

\* C10: an entry leaves the collection only in a step that appends its record;
\* a step in which a write fails logs the error, writes no record and leaves
\* the collection as it was.
C10_FailedWriteKeepsEntry ==
  [][/\ \A id \in DOMAIN collection \ DOMAIN collection' : Appends(id)
     /\ hist'.faults > hist.faults =>
          (collection' = collection /\ logErr' > logErr
             /\ LogEvents(files') = LogEvents(files))]_vars

\* an entry whose write has failed has been written by a later drain
C10_Witness ==
  \E id \in hist.failedIds :
     /\ id \notin DOMAIN collection
     /\ Len(ForId(LogEvents(files), id)) > 0

----------------------------------------------------------------------------
(* The life of a TransCache: the end of the constructor, the timer loops   *)
(* asyncWriteEntities (goroutine w1) and asyncRewriteEntities (goroutine   *)
(* r1), and Shutdown (caller s1).  RewriteAll of the constructor and of    *)
(* Shutdown runs rewriteFiles in goroutine r2.                             *)

MaxShutdowns == 2   \* calls of Shutdown in one behaviour
MaxRounds    == 1   \* timed rounds of the rewriter loop in one behaviour

\* the constructor has returned the TransCache
Running == boot.main = "ok"

\* asyncWriteEntities: time.After fires and the loop calls WriteAll
WriterTick == Running /\ offlineHelper.writer = "loop" /\ WriteAll("w1")

\* asyncRewriteEntities: time.After fires and the loop calls RewriteAll
RewriterTick ==
  /\ Running
  /\ offlineHelper.rewriter = "loop"
  /\ RewriteAllRuns
  /\ hist.rewrites < MaxRounds
  /\ RewriteFiles("r1")

\* where Shutdown goes on after the part about the writer
AfterWriter ==
  IF offlineHelper.rewriteInterval > 0 THEN "stopRewrite"
  ELSE IF offlineHelper.rewriteInterval = -2 THEN "rewriteAll" ELSE "close"

\* Shutdown is called
ShutdownCall(t) ==
  /\ phase = "up"
  /\ Running
  /\ pc[t] = "idle"
  /\ hist.calls < MaxShutdowns
  /\ pc' = [pc EXCEPT ![t] = IF cfg.dumpInterval = 0 THEN "idle"
                             ELSE IF cfg.dumpInterval > 0 THEN "stopWriting"
                             ELSE AfterWriter]
  /\ hist' = [hist EXCEPT !.calls = @ + 1,
                          !.shutdowns = IF cfg.dumpInterval = 0 THEN @ + 1 ELSE @,
                          !.opsAtCall = hist.ops, !.filesAtCall = files,
                          !.cacheAtCall = cache]
  /\ UNCHANGED <<aux, boot, now, phase, files, file, collection, cache, lruIdx, groups, cfg,
                 rewriteMux, fileMux, cacheMux, rw, mu, logErr>>

\* the writer loop has received the stop signal: it calls WriteAll once more
FinalWriteAll(w) == "drain"

\* stopWriting <- struct{}{} meets the select of the writer loop
StopWriting(t) ==
  /\ phase = "up"
  /\ pc[t] = "stopWriting"
  /\ offlineHelper.writer = "loop"
  /\ pc["w1"] = "idle"
  /\ offlineHelper' = [offlineHelper EXCEPT !.writer = "final"]
  /\ pc' = [pc EXCEPT ![t] = "writeStopped", !["w1"] = FinalWriteAll("w1")]
  /\ UNCHANGED <<others, transactionBuffer, transBufMux, transactionMux, rlocks, tx, boot, now, phase,
                 files, file, collection, cache, lruIdx, groups, cfg,
                 rewriteMux, fileMux, cacheMux, rw, mu, logErr, hist>>

\* a Shutdown that does not wait for the last round of the loop
LoopDoneEarly(loop, g) == loop = "final"

\* the loop sends on its stopped channel once its last round has returned
LoopDone(loop, g) == loop = "final" /\ pc[g] = "idle"

\* <-writeStopped
WriteStopped(t) ==
  /\ phase = "up"
  /\ pc[t] = "writeStopped"
  /\ LoopDone(offlineHelper.writer, "w1")
  /\ offlineHelper' = [offlineHelper EXCEPT !.writer = "stopped"]
  /\ pc' = [pc EXCEPT ![t] = AfterWriter]
  /\ UNCHANGED <<others, transactionBuffer, transBufMux, transactionMux, rlocks, tx, boot, now, phase,
                 files, file, collection, cache, lruIdx, groups, cfg,
                 rewriteMux, fileMux, cacheMux, rw, mu, logErr, hist>>

\* stopRewrite <- struct{}{} meets the select of the rewriter loop, which
\* calls RewriteAll once more
StopRewrite(t) ==
  /\ phase = "up"
  /\ pc[t] = "stopRewrite"
  /\ offlineHelper.rewriter = "loop"
  /\ pc["r1"] = "idle"
  /\ offlineHelper' = [offlineHelper EXCEPT !.rewriter = "final"]
  /\ pc' = [pc EXCEPT ![t] = "rewriteStopped", !["r1"] = "lock"]
  /\ UNCHANGED <<others, transactionBuffer, transBufMux, transactionMux, rlocks, tx, boot, now, phase,
                 files, file, collection, cache, lruIdx, groups, cfg,
                 rewriteMux, fileMux, cacheMux, rw, mu, logErr, hist>>

\* <-rewriteStopped
RewriteStopped(t) ==
  /\ phase = "up"
  /\ pc[t] = "rewriteStopped"
  /\ LoopDone(offlineHelper.rewriter, "r1")
  /\ offlineHelper' = [offlineHelper EXCEPT !.rewriter = "stopped"]
  /\ pc' = [pc EXCEPT ![t] = "close"]
  /\ UNCHANGED <<others, transactionBuffer, transBufMux, transactionMux, rlocks, tx, boot, now, phase,
                 files, file, collection, cache, lruIdx, groups, cfg,
                 rewriteMux, fileMux, cacheMux, rw, mu, logErr, hist>>

\* rewriteInterval = -2: Shutdown calls RewriteAll
ShutdownRewriteAll(t) ==
  /\ phase = "up"
  /\ pc[t] = "rewriteAll"
  /\ pc["r2"] = "idle"
  /\ pc' = [pc EXCEPT ![t] = "rewriteWait", !["r2"] = "lock"]
  /\ hist' = [hist EXCEPT !.rwShutdown = @ + 1]
  /\ UNCHANGED <<aux, boot, now, phase, files, file, collection, cache, lruIdx, groups, cfg,
                 rewriteMux, fileMux, cacheMux, rw, mu, logErr>>

\* RewriteAll has returned
ShutdownRewritten(t) ==
  /\ phase = "up"
  /\ pc[t] = "rewriteWait"
  /\ pc["r2"] = "idle"
  /\ pc' = [pc EXCEPT ![t] = "close"]
  /\ UNCHANGED <<aux, boot, now, phase, files, file, collection, cache, lruIdx, groups, cfg,
                 rewriteMux, fileMux, cacheMux, rw, mu, logErr, hist>>

\* the loop over tc.cache: closeFile of the dump file; Shutdown returns
ShutdownClose(t) ==
  /\ phase = "up"
  /\ pc[t] = "close"
  /\ LET r == closeFile(files, file)
     IN  /\ files' = r.files
         /\ file' = IF file.open
                    THEN [file EXCEPT !.open = FALSE,
                                      !.linked = @ /\ file.path \in DOMAIN r.files]
                    ELSE file
         /\ logErr' = logErr + (IF r.err THEN 1 ELSE 0)
  /\ pc' = [pc EXCEPT ![t] = "idle"]
  /\ hist' = [hist EXCEPT !.shutdowns = @ + 1]
  /\ UNCHANGED <<aux, boot, now, phase, collection, cache, lruIdx, groups, cfg,
                 rewriteMux, fileMux, cacheMux, rw, mu>>

DumpIntervals    == {-1, 0, 1}
RewriteIntervals == {-2, -1, 0, 1}

\* the items that are set and removed in this specification
LifeIDs == {"a"}

\* what a previous run has left in the folder: a dump file with a record
PreviousRuns == {<<OfflineCacheEntity(TRUE, "a", "v1", ZeroGroups, ZeroTime)>>}

\* the constructor when the goroutine of every instance has installed its cache
InitLife ==
  \E di \in DumpIntervals, ri \in RewriteIntervals, prev \in PreviousRuns :
    LET old   == IF prev = <<>> THEN EmptyInstance
                 ELSE FolderOf(populateEncoder(EmptyInstance, 0), prev)
        inst  == readInstanceFromFiles(old, validateFilePaths(getFilePaths(old))).instance
        order == CHOOSE o \in Orders(DOMAIN inst) : TRUE
        c     == FromInstance([cache |-> EmptyCache, lruIdx |-> <<>>, groups |-> EmptyGroups],
                              inst, order)
        fresh == populateEncoder(old, 1)
    IN  /\ now = 1
        /\ phase = "up"
        /\ files = fresh.files
        /\ file = fresh.file
        /\ collection = EmptyInstance
        /\ cache = c.cache
        /\ lruIdx = c.lruIdx
        /\ groups = c.groups
        /\ cfg = Config(di, -1, -1, 0)
        /\ rewriteMux = None
        /\ fileMux = None
        /\ cacheMux = None
        /\ pc = [t \in Threads |-> "idle"]
        /\ rw = [t \in Rewriters |-> NoRw]
        /\ mu = [t \in Mutators |-> NoMu]
        /\ logErr = 0
        /\ boot = [NoBoot EXCEPT !.main = "select", !.waiter = "wait"]
        /\ offlineHelper = [NoHelper EXCEPT !.rewriteInterval = ri]
        /\ transactionBuffer = NoTransactions
        /\ transBufMux = None
        /\ transactionMux = None
        /\ rlocks = {}
        /\ tx = [cl \in Clients |-> NoTx]
        /\ others = NoOthers
        /\ hist = NoHist

NextLife ==
  \/ Tick
  \/ StartupRewriteAll
  \/ CloseDone
  \/ Select
  \/ \E id \in LifeIDs : Running /\ Set("m1", id, "v1", <<>>)
  \/ \E id \in LifeIDs : Running /\ Remove("m1", id)
  \/ WriteEncode("m1", TRUE)
  \/ WriterTick
  \/ \E id \in LifeIDs : writeToFile("w1", id, TRUE)
  \/ Drained("w1")
  \/ RewriterTick
  \/ \E t \in Rewriters : Enter(t)
  \/ \E t \in Rewriters : Walk(t)
  \/ \E t \in Rewriters : WalkClosed(t)
  \/ \E t \in Rewriters : Read(t)
  \/ \E t \in Rewriters, k \in LifeIDs : EncodeTmp(t, k, "none")
  \/ \E t \in Rewriters : RenameOld(t)
  \/ \E t \in Rewriters : RenameTmp(t)
  \/ \E t \in Rewriters : Delete(t)
  \/ ShutdownCall("s1")
  \/ StopWriting("s1")
  \/ WriteStopped("s1")
  \/ StopRewrite("s1")
  \/ RewriteStopped("s1")
  \/ ShutdownRewriteAll("s1")
  \/ ShutdownRewritten("s1")
  \/ ShutdownClose("s1")

SpecLife == InitLife /\ [][NextLife]_vars

----------------------------------------------------------------------------
(* Claims about Shutdown and the intervals                                 *)

\* the replay of the folder gives the items of the live cache
FolderHoldsCache(fs) ==
  LET r == Replay(fs)
  IN  /\ ~r.err
      /\ DOMAIN r.instance = DOMAIN cache
      /\ \A id \in DOMAIN cache : toCachedItem(r.instance[id]) = cache[id]

\* the first call of Shutdown is past its part about the writer
PastWriter == pc["s1"] \in {"stopRewrite", "rewriteStopped", "rewriteAll", "rewriteWait", "close"}

\* no mutation was made since Shutdown was called
Quiet == hist.ops = hist.opsAtCall

\* C11: with dumpInterval > 0 the first Shutdown drains the collection before
\* its compaction and before it closes the dump file; when it has returned the
\* collection is empty and the folder holds every mutation noted before the call.
C11_ShutdownDrains ==
  (phase = "up" /\ cfg.dumpInterval > 0 /\ hist.calls = 1) =>
     /\ PastWriter => (offlineHelper.writer = "stopped" /\ (Quiet => collection = EmptyInstance))
     /\ pc["s1"] = "close" =>
          (offlineHelper.rewriter \in {"off", "stopped"} /\ pc["r2"] = "idle" /\ file.open)
     /\ (hist.shutdowns = 1 /\ Quiet) =>
          (collection = EmptyInstance /\ FolderHoldsCache(files))

\* the same, for the runs in which no dump file name was opened twice
C11_ShutdownDrainsFreshNames == ~hist.reopened => C11_ShutdownDrains

\* Shutdown has returned after a last drain that wrote a pending entry
C11_Witness ==
  /\ cfg.dumpInterval > 0 /\ hist.calls = 1 /\ hist.shutdowns = 1 /\ Quiet
  /\ ~hist.reopened
  /\ hist.ops > 0
  /\ collection = EmptyInstance
  /\ FolderHoldsCache(files)

\* a call of Shutdown waits to send the stop signal to a loop that has returned
Stuck ==
  \/ pc["s1"] = "stopWriting" /\ offlineHelper.writer = "stopped"
  \/ pc["s1"] = "stopRewrite" /\ offlineHelper.rewriter = "stopped"

\* C12: a second call of Shutdown returns - it never waits on a channel that
\* nobody reads and it does not end the process - and leaves the cache and
\* the files as they were.
C12_ShutdownIdempotent ==
  hist.calls = 2 =>
     /\ ~Stuck
     /\ ~hist.panicked
     /\ (phase = "up" /\ hist.shutdowns = 2 /\ Quiet) =>
          (files = hist.filesAtCall /\ cache = hist.cacheAtCall)

\* the second call of Shutdown has returned
C12_Witness == phase = "up" /\ hist.calls = 2 /\ hist.shutdowns = 2 /\ cfg.dumpInterval # 0

\* C13: when Shutdown closes the dump file no round of a timer loop is
\* running: both loops have taken the stop signal between two rounds, have
\* run their last round and have signalled it.
C13_NoCloseDuringRound ==
  (phase = "up" /\ pc["s1"] = "close") =>
     /\ pc["w1"] = "idle"
     /\ pc["r1"] = "idle"
     /\ offlineHelper.writer \in {"off", "stopped"}
     /\ offlineHelper.rewriter \in {"off", "stopped"}

\* Shutdown is about to close the file after both loops ran and were stopped
C13_Witness ==
  /\ phase = "up"
  /\ pc["s1"] = "close"
  /\ offlineHelper.writer = "stopped"
  /\ offlineHelper.rewriter = "stopped"
  /\ hist.rewrites > 0
  /\ \E p \in DOMAIN files : p.k = rewriteFileName

\* C14: with dumpInterval = 0 there is no collector: no dump file is open,
\* nothing is noted in a collection and the folder stays as it was found.
C14_PersistenceDisabled ==
  cfg.dumpInterval = 0 =>
     /\ ~file.open
     /\ collection = EmptyInstance
     /\ DOMAIN files = {Path(dumpFileName, 0, 0)}

\* with dumpInterval = 0 a removal has been noted in the collection
C14_Witness ==
  /\ cfg.dumpInterval = 0
  /\ \E id \in DOMAIN collection : ~collection[id].IsSet
  /\ Path(dumpFileName, 0, 1) \in DOMAIN files

\* C15 (with persistence on, dumpInterval # 0): rewriteInterval = -1 gives one
\* rewriteFiles, finished when the constructor returns, no rewriter loop and
\* no rewrite at Shutdown; rewriteInterval = -2 gives no rewrite before
\* Shutdown and one in Shutdown, finished before the dump file is closed.
C15_RewriteIntervals ==
  (phase = "up" /\ cfg.dumpInterval # 0) =>
     /\ offlineHelper.rewriteInterval = -1 =>
          /\ hist.rwStartup = (IF boot.waiter = "wait" THEN 0 ELSE 1)
          /\ Running => pc["r2"] = "idle"
          /\ offlineHelper.rewriter = "off"
          /\ hist.rewrites = 0
          /\ hist.rwShutdown = 0
     /\ offlineHelper.rewriteInterval = -2 =>
          /\ hist.rwStartup = 0
          /\ offlineHelper.rewriter = "off"
          /\ hist.rewrites = 0
          /\ hist.calls = 0 => (hist.rwShutdown = 0 /\ pc["r2"] = "idle")
          /\ hist.calls = 1 =>
               /\ hist.rwShutdown =
                    (IF pc["s1"] \in {"stopWriting", "writeStopped", "rewriteAll"} THEN 0 ELSE 1)
               /\ pc["r2"] # "idle" => (pc["s1"] = "rewriteWait" /\ file.open)
               /\ pc["s1"] = "close" => (pc["r2"] = "idle" /\ file.open)

\* the one rewrite of Shutdown has compacted the folder and Shutdown has returned
C15_Witness ==
  /\ phase = "up"
  /\ cfg.dumpInterval # 0
  /\ offlineHelper.rewriteInterval = -2
  /\ hist.calls = 1 /\ hist.shutdowns = 1 /\ hist.rwShutdown = 1
  /\ \E p \in DOMAIN files : p.k = rewriteFileName

\* the one rewrite of the start-up has compacted the folder before the constructor returned
C15_WitnessStartup ==
  /\ phase = "up"
  /\ cfg.dumpInterval # 0
  /\ offlineHelper.rewriteInterval = -1
  /\ Running /\ hist.rwStartup = 1
  /\ \E p \in DOMAIN files : p.k = rewriteFileName

----------------------------------------------------------------------------
(* Batched mode with a bounded cache, a time to live and groups: every way *)
(* in which an item leaves the cache                                       *)

ShortTTL == 1   \* a time to live that ends within the run of the clock

\* cleanExpired: the sweeper removes an item whose expiry time has come and
\* fires onEvicted for it
cleanExpired(id) ==
  /\ phase = "up"
  /\ id \in DOMAIN cache
  /\ cache[id].expiryTime # ZeroTime
  /\ cache[id].expiryTime <= now
  /\ fileMux = None
  /\ LET c  == remove(TheCache, id)
         ev == onEvicted(collection, <<id>>, cfg.dumpInterval)
         r  == IF ev.write = <<>>
               THEN [files |-> files, file |-> file, err |-> FALSE, logs |-> 0]
               ELSE writeEntity(files, file, now, cfg.writeLimit, ev.write[1], TRUE)
     IN  /\ cache' = c.cache
         /\ lruIdx' = c.lruIdx
         /\ groups' = c.groups
         /\ collection' = ev.collection
         /\ files' = r.files
         /\ file' = r.file
         /\ logErr' = logErr + (IF r.err THEN r.logs + 1 ELSE 0)
         /\ hist' = Observed(hist, TheCache, ExpireOp(id), c, cfg.maxEntries)
  /\ UNCHANGED <<aux, boot, now, phase, cfg, rewriteMux, fileMux, cacheMux, pc, rw, mu>>

InitEvict ==
  \E me \in {-1, 1}, ttl \in {0, ShortTTL} : InitWith(Config(1, -1, me, ttl), FALSE)

NextEvict ==
  \/ Tick
  \/ \E id \in ItemIDs, g \in GroupLists : Set("m1", id, "v1", g)
  \/ \E id \in ItemIDs : Remove("m1", id)
  \/ \E g \in GroupIDs : RemoveGroup("m1", g)
  \/ Clear("m1")
  \/ \E id \in ItemIDs : cleanExpired(id)
  \/ WriteAll("w1")
  \/ \E id \in ItemIDs : writeToFile("w1", id, TRUE)
  \/ Drained("w1")

SpecEvict == InitEvict /\ [][NextEvict]_vars

\* the items a step takes out of the cache and those it puts into it
Leaving == DOMAIN cache \ DOMAIN cache'
Entering == DOMAIN cache' \ DOMAIN cache

\* C17: a step that removes items from the cache leaves the removal entry of
\* each of them in the collection (whatever was pending for it), leaves the
\* entries of the items it neither removes nor sets as they were, writes
\* nothing to the folder and logs no error.
C17_RemovalsAreCollected ==
  [][Leaving # {} =>
       /\ \A id \in Leaving :
            id \in DOMAIN collection' /\ collection'[id] = CollectionEntity(FALSE, id)
       /\ DOMAIN collection' = DOMAIN collection \cup Leaving \cup Entering
       /\ \A k \in DOMAIN collection \ (Leaving \cup Entering) : collection'[k] = collection[k]
       /\ files' = files
       /\ logErr' = logErr]_vars

\* after a single mutation, a set, the item has expired and its removal is collected
C17_Witness ==
  /\ cfg.ttl > 0
  /\ hist.ops = 1
  /\ \E id \in DOMAIN collection : id \notin DOMAIN cache /\ ~collection[id].IsSet

\* the least recently used item was displaced by a set and its removal is collected
C17_WitnessOverflow ==
  /\ cfg.maxEntries = 1
  /\ cfg.ttl = 0
  /\ Cardinality(DOMAIN cache) = 1
  /\ \E id \in DOMAIN collection : id \notin DOMAIN cache /\ ~collection[id].IsSet
  /\ \E id \in DOMAIN collection : id \in DOMAIN cache /\ collection[id].IsSet

----------------------------------------------------------------------------
(* Transactions of the TransCache: BeginTransaction, Set / Remove /        *)
(* RemoveGroup with commit = false, RollbackTransaction, CommitTransaction *)
(* and the readers Get and HasItem.  There is one cache instance, so the   *)
(* cacheID of a transactionItem is left out.                               *)

MaxQueued == 2   \* transactionItems queued in one behaviour
MaxReads  == 1   \* calls of Get and HasItem in one behaviour
MaxDirect == 1   \* calls of Set, Remove, RemoveGroup and Clear with commit = true

TransIDs == {"t1", "t2"}

\* the items the clients work on
TxItemIDs == {"a", "b"}

AddItem         == "AddItem"
RemoveItem      == "RemoveItem"
RemoveGroupVerb == "RemoveGroup"

\* &transactionItem{...}; n tells the allocations apart
transactionItem(verb, itemID, value, groupIDs, n) ==
  [verb |-> verb, itemID |-> itemID, value |-> value, groupIDs |-> groupIDs, n |-> n]

\* GenUUID: an id that no earlier call has returned
GenUUID(used) == TransIDs \ used

\* tc.transactionBuffer[transID]: nil when the map has no such key
BufferOf(tb, transID) == IF transID \in DOMAIN tb THEN tb[transID] ELSE <<>>

\* tc.transactionBuffer[transID] = items
WithBuffer(tb, transID, items) ==
  [x \in DOMAIN tb \cup {transID} |-> IF x = transID THEN items ELSE tb[x]]

\* a delete that leaves the key in the map
deleteNothing(tb, transID) == tb

\* delete(tc.transactionBuffer, transID)
delete(tb, transID) == [x \in DOMAIN tb \ {transID} |-> tb[x]]

\* a loop that takes the items last to first
ItemAtReversed(items, i) == items[Len(items) + 1 - i]

\* for _, item := range tc.transactionBuffer[transID]: the item of round i
ItemAt(items, i) == items[i]

\* a shared lock that waits for nobody
cacheMuxRNoLock(t) == rlocks' = rlocks \cup {t}

\* tc.cacheMux.RLock()
cacheMuxRLock(t) == cacheMux = None /\ rlocks' = rlocks \cup {t}

\* Cache.Get: a hit moves the item to the front of lruIdx
get(c, id) ==
  IF id \in DOMAIN c.cache THEN [c EXCEPT !.lruIdx = <<id>> \o SeqWithout(c.lruIdx, id)] ELSE c

BeginTransaction(c) ==
  /\ phase = "up"
  /\ pc[c] = "idle"
  /\ transBufMux = None
  /\ \E transID \in GenUUID(hist.uuids) :
       /\ transactionBuffer' = WithBuffer(transactionBuffer, transID, <<>>)
       /\ hist' = [hist EXCEPT !.uuids = @ \cup {transID}]
  /\ UNCHANGED <<others, offlineHelper, transBufMux, transactionMux, rlocks, tx, boot, now, phase, files,
                 file, collection, cache, lruIdx, groups, cfg, rewriteMux, fileMux,
                 cacheMux, pc, rw, mu, logErr>>

RollbackTransaction(c, transID) ==
  /\ phase = "up"
  /\ pc[c] = "idle"
  /\ transBufMux = None
  /\ transactionBuffer' = delete(transactionBuffer, transID)
  /\ hist' = [hist EXCEPT !.discarded = @ \cup {BufferOf(transactionBuffer, transID)[x].n :
                                                  x \in DOMAIN BufferOf(transactionBuffer, transID)}]
  /\ UNCHANGED <<others, offlineHelper, transBufMux, transactionMux, rlocks, tx, boot, now, phase, files,
                 file, collection, cache, lruIdx, groups, cfg, rewriteMux, fileMux,
                 cacheMux, pc, rw, mu, logErr>>

\* the branch commit = false of Set, Remove and RemoveGroup
Queue(c, transID, verb, itemID, value, groupIDs) ==
  /\ phase = "up"
  /\ pc[c] = "idle"
  /\ transBufMux = None
  /\ hist.queued < MaxQueued
  /\ transactionBuffer' =
       WithBuffer(transactionBuffer, transID,
                  Append(BufferOf(transactionBuffer, transID),
                         transactionItem(verb, itemID, value, groupIDs, hist.queued + 1)))
  /\ hist' = [hist EXCEPT !.queued = @ + 1]
  /\ UNCHANGED <<others, offlineHelper, transBufMux, transactionMux, rlocks, tx, boot, now, phase, files,
                 file, collection, cache, lruIdx, groups, cfg, rewriteMux, fileMux,
                 cacheMux, pc, rw, mu, logErr>>

SetBuffered(c, transID, id, v, g) == Queue(c, transID, AddItem, id, v, g)

RemoveBuffered(c, transID, id) == Queue(c, transID, RemoveItem, id, ZeroValue, <<>>)

RemoveGroupBuffered(c, transID, g) == Queue(c, transID, RemoveGroupVerb, "", ZeroValue, <<g>>)

\* CommitTransaction: tc.transactionMux.Lock()
CommitTransaction(c, transID) ==
  /\ phase = "up"
  /\ pc[c] = "idle"
  /\ transactionMux = None
  /\ transactionMux' = c
  /\ pc' = [pc EXCEPT ![c] = "bufLock"]
  /\ tx' = [tx EXCEPT ![c] = [NoTx EXCEPT !.id = transID]]
  /\ UNCHANGED <<others, offlineHelper, transactionBuffer, transBufMux, rlocks, boot, now, phase, files,
                 file, collection, cache, lruIdx, groups, cfg, rewriteMux, fileMux,
                 cacheMux, rw, mu, logErr, hist>>

\* CommitTransaction: tc.transBufMux.Lock()
CommitBufLock(c) ==
  /\ pc[c] = "bufLock"
  /\ transBufMux = None
  /\ transBufMux' = c
  /\ pc' = [pc EXCEPT ![c] = "cacheLock"]
  /\ UNCHANGED <<others, offlineHelper, transactionBuffer, transactionMux, rlocks, tx, boot, now, phase,
                 files, file, collection, cache, lruIdx, groups, cfg, rewriteMux, fileMux,
                 cacheMux, rw, mu, logErr, hist>>

\* CommitTransaction: tc.cacheMux.Lock()
CommitCacheLock(c) ==
  /\ pc[c] = "cacheLock"
  /\ cacheMuxLock(c)
  /\ pc' = [pc EXCEPT ![c] = "apply"]
  /\ tx' = [tx EXCEPT ![c].i = 1]
  /\ hist' = [hist EXCEPT !.txBefore = TheCache]
  /\ UNCHANGED <<others, offlineHelper, transactionBuffer, transBufMux, transactionMux, rlocks, boot, now,
                 phase, files, file, collection, cache, lruIdx, groups, cfg, rewriteMux,
                 fileMux, rw, mu, logErr>>

\* the call of the cache engine that the loop makes for item, in the cache c
EngineOps(c, item) ==
  CASE item.verb = AddItem    -> {SetOp(item.itemID, item.value, item.groupIDs)}
    [] item.verb = RemoveItem -> {RemoveOp(item.itemID)}
    [] OTHER -> IF Len(item.groupIDs) >= 1
                THEN {RemoveGroupOp(item.groupIDs[1], o) :
                        o \in Orders(GroupMembers(c.groups, item.groupIDs[1]))}
                ELSE {}

\* CommitTransaction: one round of the loop; Set, Remove and RemoveGroup are
\* called with commit = true and the transID, so they take no lock
CommitApply(c) ==
  /\ pc[c] = "apply"
  /\ tx[c].i <= Len(BufferOf(transactionBuffer, tx[c].id))
  /\ LET item == ItemAt(BufferOf(transactionBuffer, tx[c].id), tx[c].i)
     IN  /\ \E op \in EngineOps(TheCache, item) :
               LET after == Mutate(TheCache, op, now, cfg)
                   note  == Notify(collection, TheCache, op, after, cfg)
               IN  /\ cache' = after.cache
                   /\ lruIdx' = after.lruIdx
                   /\ groups' = after.groups
                   /\ collection' = note.collection
         /\ hist' = [hist EXCEPT !.done = @ \cup {item.n}]
  /\ tx' = [tx EXCEPT ![c].i = @ + 1]
  /\ UNCHANGED <<others, offlineHelper, transactionBuffer, transBufMux, transactionMux, rlocks, boot, now,
                 phase, files, file, cfg, rewriteMux, fileMux, cacheMux, pc, rw, mu, logErr>>

\* CommitTransaction: the loop is over, tc.cacheMux.Unlock()
CommitCacheUnlock(c) ==
  /\ pc[c] = "apply"
  /\ tx[c].i > Len(BufferOf(transactionBuffer, tx[c].id))
  /\ cacheMux' = None
  /\ pc' = [pc EXCEPT ![c] = "delete"]
  /\ hist' = [hist EXCEPT !.txBefore = EmptyCache]
  /\ UNCHANGED <<others, offlineHelper, transactionBuffer, transBufMux, transactionMux, rlocks, tx, boot,
                 now, phase, files, file, collection, cache, lruIdx, groups, cfg, rewriteMux,
                 fileMux, rw, mu, logErr>>

\* CommitTransaction: delete(tc.transactionBuffer, transID) and the two Unlock
CommitDelete(c) ==
  /\ pc[c] = "delete"
  /\ transactionBuffer' = delete(transactionBuffer, tx[c].id)
  /\ transBufMux' = None
  /\ transactionMux' = None
  /\ pc' = [pc EXCEPT ![c] = "idle"]
  /\ tx' = [tx EXCEPT ![c] = NoTx]
  /\ UNCHANGED <<others, offlineHelper, rlocks, boot, now, phase, files, file, collection, cache,
                 lruIdx, groups, cfg, rewriteMux, fileMux, cacheMux, rw, mu, logErr, hist>>

\* Get and HasItem: tc.cacheMux.RLock()
RLocked(c, id, as) ==
  /\ phase = "up"
  /\ pc[c] = "idle"
  /\ hist.reads < MaxReads
  /\ cacheMuxRLock(c)
  /\ pc' = [pc EXCEPT ![c] = as]
  /\ tx' = [tx EXCEPT ![c] = [NoTx EXCEPT !.key = id]]
  /\ UNCHANGED <<others, offlineHelper, transactionBuffer, transBufMux, transactionMux, boot, now, phase,
                 files, file, collection, cache, lruIdx, groups, cfg, rewriteMux, fileMux,
                 cacheMux, rw, mu, logErr, hist>>

Get(c, id) == RLocked(c, id, "get")

HasItem(c, id) == RLocked(c, id, "has")

\* Get and HasItem: the call of the cache engine, tc.cacheMux.RUnlock()
ReadReturn(c) ==
  /\ pc[c] \in {"get", "has"}
  /\ lruIdx' = IF pc[c] = "get" THEN get(TheCache, tx[c].key).lruIdx ELSE lruIdx
  /\ rlocks' = rlocks \ {c}
  /\ pc' = [pc EXCEPT ![c] = "idle"]
  /\ tx' = [tx EXCEPT ![c] = NoTx]
  /\ hist' = [(IF pc[c] = "get" /\ tx[c].key \in DOMAIN cache
                THEN Observed(hist, TheCache, GetOp(tx[c].key), TheCache, cfg.maxEntries)
                ELSE hist) EXCEPT !.reads = @ + 1]
  /\ UNCHANGED <<others, offlineHelper, transactionBuffer, transBufMux, transactionMux, boot, now, phase,
                 files, file, collection, cache, groups, cfg, rewriteMux, fileMux,
                 cacheMux, rw, mu, logErr>>

\* a TransCache whose instance has a collector with a dump interval, no
\* limit of entries and no time to live
InitTx == InitWith(Config(1, -1, -1, 0), FALSE)

NextTx ==
  \/ \E c \in Clients : BeginTransaction(c)
  \/ \E c \in Clients, transID \in TransIDs : RollbackTransaction(c, transID)
  \/ \E c \in Clients, transID \in TransIDs, id \in TxItemIDs, g \in GroupLists :
       SetBuffered(c, transID, id, "v1", g)
  \/ \E c \in Clients, transID \in TransIDs, id \in TxItemIDs : RemoveBuffered(c, transID, id)
  \/ \E c \in Clients, transID \in TransIDs, g \in GroupIDs : RemoveGroupBuffered(c, transID, g)
  \/ \E c \in Clients, transID \in TransIDs : CommitTransaction(c, transID)
  \/ \E c \in Clients : CommitBufLock(c)
  \/ \E c \in Clients : CommitCacheLock(c)
  \/ \E c \in Clients : CommitApply(c)
  \/ \E c \in Clients : CommitCacheUnlock(c)
  \/ \E c \in Clients : CommitDelete(c)
  \/ \E c \in Clients, id \in TxItemIDs : Get(c, id)
  \/ \E c \in Clients, id \in TxItemIDs : HasItem(c, id)
  \/ \E c \in Clients : ReadReturn(c)
  \/ hist.ops < MaxDirect /\ Set("m1", "a", "v2", <<>>)
  \/ hist.ops < MaxDirect /\ Remove("m1", "a")
  \/ hist.ops < MaxDirect /\ \E g \in GroupIDs : RemoveGroup("m1", g)
  \/ hist.ops < MaxDirect /\ Clear("m1")

SpecTx == InitTx /\ [][NextTx]_vars

\* the cache engine after the calls that a loop over items makes, first to last
RECURSIVE AfterItems(_, _)
AfterItems(c, items) ==
  IF items = <<>> THEN c
  ELSE LET ops == EngineOps(c, Head(items))
       IN  AfterItems(IF ops = {} THEN c ELSE Mutate(c, CHOOSE o \in ops : TRUE, now, cfg),
                  Tail(items))

\* the place of the last of items that names the item id, 0 when none does
LastOn(items, id) ==
  LET S == {x \in DOMAIN items : items[x].itemID = id}
  IN  IF S = {} THEN 0 ELSE CHOOSE x \in S : \A y \in S : y <= x

\* the client c leaves the loop of CommitTransaction in this step
LoopEnds(c) == pc[c] = "apply" /\ pc'[c] = "delete"

\* C18: a Set, Remove or RemoveGroup with commit = false leaves the cache
\* instance and its collection as they were (a Get still misses a queued
\* Set); when the loop of CommitTransaction ends, the cache is what the
\* queued operations make of the cache found at the start, applied first to
\* last: an item whose last queued operation is a Set is present with that
\* value, one whose last is a Remove is absent, an item not named is as it
\* was; and CommitTransaction returns with the id gone from the buffer.
C18_CommitAppliesInOrder ==
  [][/\ (\E t \in TransIDs :
           Len(BufferOf(transactionBuffer', t)) > Len(BufferOf(transactionBuffer, t)))
          => TheCache' = TheCache /\ collection' = collection
     /\ \A c \in Clients :
          /\ LoopEnds(c) =>
               LET items == BufferOf(transactionBuffer, tx[c].id)
               IN  /\ TheCache' = AfterItems(hist.txBefore, items)
                   /\ (\A x \in DOMAIN items : items[x].verb # RemoveGroupVerb) =>
                        \A id \in ItemIDs :
                          LET l == LastOn(items, id)
                          IN  CASE l = 0 ->
                                     IF id \in DOMAIN hist.txBefore.cache
                                     THEN id \in DOMAIN cache'
                                            /\ cache'[id] = hist.txBefore.cache[id]
                                     ELSE id \notin DOMAIN cache'
                                [] l > 0 /\ items[l].verb = AddItem ->
                                     id \in DOMAIN cache' /\ cache'[id].value = items[l].value
                                [] OTHER -> id \notin DOMAIN cache'
          /\ (pc[c] = "delete" /\ pc'[c] = "idle")
               => tx[c].id \notin DOMAIN transactionBuffer']_vars

\* a commit of <<Remove id, Set id>> has run its loop and the item is present
C18_Witness ==
  \E c \in Clients :
    /\ pc[c] = "delete"
    /\ LET items == BufferOf(transactionBuffer, tx[c].id)
       IN  /\ Len(items) = 2
           /\ items[1].verb = RemoveItem
           /\ items[2].verb = AddItem
           /\ items[1].itemID = items[2].itemID
           /\ items[2].itemID \in DOMAIN cache
           /\ cache[items[2].itemID].value = items[2].value

\* a commit of <<Set id, Remove id>> has run its loop and the item is absent
C18_WitnessSetRemove ==
  \E c \in Clients :
    /\ pc[c] = "delete"
    /\ LET items == BufferOf(transactionBuffer, tx[c].id)
       IN  /\ Len(items) = 2
           /\ items[1].verb = AddItem
           /\ items[2].verb = RemoveItem
           /\ items[1].itemID = items[2].itemID
           /\ items[2].itemID \notin DOMAIN cache

\* a commit of <<Set id in a group, RemoveGroup>> has run its loop
C18_WitnessRemoveGroup ==
  \E c \in Clients :
    /\ pc[c] = "delete"
    /\ LET items == BufferOf(transactionBuffer, tx[c].id)
       IN  /\ Len(items) = 2
           /\ items[1].verb = AddItem
           /\ items[1].groupIDs # <<>>
           /\ items[2].verb = RemoveGroupVerb
           /\ items[1].itemID \notin DOMAIN cache

\* the transactions that this step rolls back
RolledBack ==
  {t \in TransIDs :
     \/ \E x \in DOMAIN BufferOf(transactionBuffer, t) :
          BufferOf(transactionBuffer, t)[x].n \in hist'.discarded \ hist.discarded
     \/ t \in DOMAIN transactionBuffer /\ t \notin DOMAIN transactionBuffer' /\ pc' = pc}

\* C19: RollbackTransaction leaves the cache instance and its collection as
\* they were and the buffer without the id, and no operation that was queued
\* under the id when it was rolled back is applied by any commit.
C19_RollbackDiscards ==
  [][/\ hist'.done \cap hist'.discarded = {}
     /\ \A t \in RolledBack :
          /\ t \notin DOMAIN transactionBuffer'
          /\ TheCache' = TheCache
          /\ collection' = collection]_vars

\* an operation was rolled back, and a later one queued under an id was committed
C19_Witness ==
  /\ 1 \in hist.discarded
  /\ 2 \in hist.done
  /\ \A c \in Clients : pc[c] = "idle"

\* the client c is between two rounds of the loop of CommitTransaction
MidCommit(c) ==
  /\ pc[c] = "apply"
  /\ tx[c].i > 1
  /\ tx[c].i <= Len(BufferOf(transactionBuffer, tx[c].id))

\* C20: while a CommitTransaction is between two operations of its buffer, no
\* Get or HasItem reads the cache, no Set, Remove, RemoveGroup or Clear with
\* commit = true and no transID changes it, no other CommitTransaction is in
\* its loop, and nothing but the next operation of the commit changes the cache.
C20_CommitInOneShot ==
  [][\A c \in Clients : MidCommit(c) =>
       /\ hist'.reads = hist.reads
       /\ hist'.ops = hist.ops
       /\ \A d \in Clients \ {c} : pc[d] # "apply" /\ pc'[d] # "apply"
       /\ rlocks = {}
       /\ tx'[c].i = tx[c].i => TheCache' = TheCache]_vars

\* a commit is between its two operations, in a cache that a Get or HasItem
\* has read and a call with commit = true has changed
C20_Witness ==
  \E c \in Clients :
    /\ MidCommit(c)
    /\ cacheMux = c
    /\ hist.reads > 0
    /\ hist.ops > 0

----------------------------------------------------------------------------
(* validateFilePaths on the listing of an instance folder                  *)

\* the files that the folder of an instance may hold at start-up
StartPaths ==
  {Path(rewriteFileName, 0, 1), Path(rewriteFileName, 1, 1), Path(oldRewriteName, 0, 0),
   Path(tmpRewriteName, 0, 0), Path(tmpRewriteName, 0, 1), Path(dumpFileName, 0, 1)}

\* a first loop that finds no oldRewrite file
NeverRemoveZeroRewrite(paths) == FALSE

\* validateFilePaths, first loop: removeZeroRewrite
RemoveZeroRewrite(paths) == \E x \in DOMAIN paths : paths[x].k = oldRewriteName

\* validateFilePaths, second loop: os.Remove of a path that is not in the
\* folder is an error, which ends the function
RECURSIVE validateLoop(_, _, _, _)
validateLoop(fs, paths, removeZeroRewrite, validPaths) ==
  IF paths = <<>> THEN [files |-> fs, validPaths |-> validPaths, err |-> FALSE]
  ELSE LET s == Head(paths)
       IN  IF s.k = tmpRewriteName \/ (removeZeroRewrite /\ s.k = rewriteFileName)
           THEN IF s \notin DOMAIN fs
                THEN [files |-> fs, validPaths |-> <<>>, err |-> TRUE]
                ELSE validateLoop(WithoutFiles(fs, {s}), Tail(paths), removeZeroRewrite,
                                  validPaths)
           ELSE validateLoop(fs, Tail(paths), removeZeroRewrite, Append(validPaths, s))

\* validateFilePaths is called with paths; a second call is given the result of the first
ValidateFilePaths(t) ==
  /\ phase = "down"
  /\ pc[t] \in {"idle", "valid"}
  /\ LET paths == rw[t].filePaths
         r     == validateLoop(files, paths, RemoveZeroRewrite(paths), <<>>)
     IN  /\ files' = r.files
         /\ rw' = [rw EXCEPT ![t].filePaths = r.validPaths]
         /\ logErr' = IF r.err THEN logErr + 1 ELSE logErr
         /\ hist' = IF pc[t] = "idle"
                    THEN [hist EXCEPT !.valIn = paths, !.valFolder = files]
                    ELSE [hist EXCEPT !.valAfter = files]
  /\ pc' = [pc EXCEPT ![t] = IF pc[t] = "idle" THEN "valid" ELSE "again"]
  /\ UNCHANGED <<aux, boot, now, phase, file, collection, cache, lruIdx, groups, cfg,
                 rewriteMux, fileMux, cacheMux, mu>>

\* a process that starts on a folder; paths is the listing of the folder, in any order
InitValidate ==
  /\ now = 2
  /\ phase = "down"
  /\ \E S \in SUBSET StartPaths :
       /\ files = [q \in S |-> <<>>]
       /\ \E paths \in Orders(S) : rw = [t \in Rewriters |-> [NoRw EXCEPT !.filePaths = paths]]
  /\ file = NoFile
  /\ collection = EmptyInstance
  /\ cache = EmptyCache
  /\ lruIdx = <<>>
  /\ groups = EmptyGroups
  /\ cfg = Config(-1, -1, -1, 0)
  /\ rewriteMux = None
  /\ fileMux = None
  /\ cacheMux = None
  /\ pc = [t \in Threads |-> "idle"]
  /\ mu = [t \in Mutators |-> NoMu]
  /\ logErr = 0
  /\ boot = NoBoot
  /\ offlineHelper = NoHelper
  /\ transactionBuffer = NoTransactions
  /\ transBufMux = None
  /\ transactionMux = None
  /\ rlocks = {}
  /\ tx = [cl \in Clients |-> NoTx]
  /\ others = NoOthers
  /\ hist = NoHist

NextValidate == ValidateFilePaths("r1")

SpecValidate == InitValidate /\ [][NextValidate]_vars

\* the files of kind k in the folder fs
OfKind(fs, k) == {q \in DOMAIN fs : q.k = k}

\* C27: validateFilePaths removes from the folder every tmpRewrite file of
\* its list, and every 0Rewrite file of the list iff the list has an
\* oldRewrite file; it returns the other paths in the order of the list and
\* no error.  The folder then has no tmpRewrite file and never both
\* oldRewrite and 0Rewrite files, and a second call removes nothing.
C27_ValidateFilePaths ==
  pc["r1"] \in {"valid", "again"} =>
    LET in     == hist.valIn
        hasOld == \E x \in DOMAIN in : in[x].k = oldRewriteName
        Gone(q) == q.k = tmpRewriteName \/ (hasOld /\ q.k = rewriteFileName)
    IN  /\ logErr = 0
        /\ rw["r1"].filePaths = SelectSeq(in, LAMBDA q : ~Gone(q))
        /\ DOMAIN files = {q \in DOMAIN hist.valFolder : ~Gone(q)}
        /\ \A q \in DOMAIN files : files[q] = hist.valFolder[q]
        /\ OfKind(files, tmpRewriteName) = {}
        /\ OfKind(files, oldRewriteName) = {} \/ OfKind(files, rewriteFileName) = {}
        /\ pc["r1"] = "again" => files = hist.valAfter

\* called twice on a list, not in directory order, that has files of all four kinds
C27_Witness ==
  /\ pc["r1"] = "again"
  /\ hist.valIn # getFilePaths(hist.valFolder)
  /\ \A k \in {rewriteFileName, oldRewriteName, tmpRewriteName, dumpFileName} :
       OfKind(hist.valFolder, k) # {}
  /\ OfKind(files, rewriteFileName) = {}

\* called on a list without oldRewrite file: the 0Rewrite files stay
C27_WitnessKeeps ==
  /\ pc["r1"] = "valid"
  /\ OfKind(hist.valFolder, tmpRewriteName) # {}
  /\ OfKind(files, rewriteFileName) # {}

----------------------------------------------------------------------------
(* The list of files that a rewrite replays                                *)

\* C28: the list of files that rewriteFiles replays has no tmpRewrite file,
\* and no 0Rewrite file when it has an oldRewrite file.
C28_RewriteListIsValid ==
  \A t \in Rewriters :
    pc[t] = "read" =>
      LET fp == rw[t].filePaths
      IN  /\ \A x \in DOMAIN fp : fp[x].k # tmpRewriteName
          /\ (\E x \in DOMAIN fp : fp[x].k = oldRewriteName)
               => \A x \in DOMAIN fp : fp[x].k # rewriteFileName

\* a rewrite is about to replay a list that holds the tmpRewrite file of a
\* rewrite that failed
C28_Witness ==
  /\ TmpFiles(hist.rwFolder) # {}
  /\ \E t \in Rewriters :
       /\ pc[t] = "read"
       /\ \E x \in DOMAIN rw[t].filePaths : rw[t].filePaths[x].k = tmpRewriteName

----------------------------------------------------------------------------
(* A rewrite of the folder that an earlier run has left, killed at any     *)
(* point, and the next start                                               *)

\* the 0Rewrite files that the last rewrite of an earlier run has left: none,
\* one, or two (the second made by the rotation of the temp file)
Snapshots ==
  LET a == Encode(OfflineCacheEntity(TRUE, "a", "v1", ZeroGroups, ZeroTime), TRUE)
      b == Encode(OfflineCacheEntity(TRUE, "b", "v1", ZeroGroups, ZeroTime), TRUE)
      one == Path(rewriteFileName, 0, 1)
      two == Path(rewriteFileName, 1, 1)
  IN  {EmptyInstance,
       [q \in {one} |-> <<a>>],
       [q \in {one} |-> <<a, [b EXCEPT !.types = FALSE]>>],
       [q \in {one, two} |-> IF q = one THEN <<a>> ELSE <<b>>]}

\* what the earlier run has appended to its dump file after that rewrite
LaterEntities ==
  {<<>>,
   <<OfflineCacheEntity(TRUE, "a", "v1", ZeroGroups, ZeroTime)>>,
   <<OfflineCacheEntity(TRUE, "a", "v2", ZeroGroups, ZeroTime)>>,
   <<OfflineCacheEntity(FALSE, "a", ZeroValue, ZeroGroups, ZeroTime)>>}

\* the process has started on such a folder at millisecond 2
InitKill ==
  \E snap \in Snapshots, later \in LaterEntities, wl \in WriteLimits :
    LET old   == FolderOf(populateEncoder(snap, 1), later)
        inst  == readInstanceFromFiles(old, validateFilePaths(getFilePaths(old))).instance
        order == CHOOSE o \in Orders(DOMAIN inst) : TRUE
        c     == FromInstance([cache |-> EmptyCache, lruIdx |-> <<>>, groups |-> EmptyGroups],
                              inst, order)
        fresh == populateEncoder(old, 2)
    IN  /\ now = 2
        /\ phase = "up"
        /\ files = fresh.files
        /\ file = fresh.file
        /\ collection = EmptyInstance
        /\ cache = c.cache
        /\ lruIdx = c.lruIdx
        /\ groups = c.groups
        /\ cfg = Config(-1, wl, -1, 0)
        /\ rewriteMux = None
        /\ fileMux = None
        /\ cacheMux = None
        /\ pc = [t \in Threads |-> "idle"]
        /\ rw = [t \in Rewriters |-> NoRw]
        /\ mu = [t \in Mutators |-> NoMu]
        /\ logErr = 0
        /\ boot = NoBoot
        /\ offlineHelper = NoHelper
        /\ transactionBuffer = NoTransactions
        /\ transBufMux = None
        /\ transactionMux = None
        /\ rlocks = {}
        /\ tx = [cl \in Clients |-> NoTx]
        /\ others = NoOthers
        /\ hist = NoHist

NextKill ==
  \/ Tick
  \/ RewriteFiles("r1")
  \/ Enter("r1")
  \/ Walk("r1")
  \/ Read("r1")
  \/ \E k \in ItemIDs : EncodeTmp("r1", k, "none")
  \/ RenameOld("r1")
  \/ RenameTmp("r1")
  \/ Delete("r1")
  \/ Crash
  \/ Restart

SpecKill == InitKill /\ [][NextKill]_vars

\* the rewrite was killed after it had renamed some of the 0Rewrite files
\* to oldRewrite and before it had renamed the others
KilledInRenameOld ==
  /\ hist.crashPc = "renameOld"
  /\ \E x \in DOMAIN hist.crashAt.filePaths : hist.crashAt.filePaths[x].k = oldRewriteName

\* C29: after such a kill the next start succeeds and recovers what the
\* folder held when the rewrite began: every item with the record it had.
C29_PartialRenameLosesNothing ==
  (KilledInRenameOld /\ phase \in {"recovered", "failed"}) =>
     /\ phase = "recovered"
     /\ hist.recovered = hist.rwPre

\* such a kill, and the start after it, have happened
C29_Witness ==
  /\ KilledInRenameOld
  /\ phase = "recovered"
  /\ DOMAIN hist.rwPre = {"a", "b"}

\* the rewrite was killed after it had removed at least one of its input files
KilledInDelete ==
  /\ hist.crashPc = "delete"
  /\ hist.crashAt.i > 1

\* C30: after such a kill the next start keeps the new 0Rewrite files and
\* recovers what the rewrite has written into them.
C30_NewSnapshotRecovered ==
  (KilledInDelete /\ phase \in {"recovered", "failed"}) =>
     /\ phase = "recovered"
     /\ OfKind(hist.downFolder, rewriteFileName) \subseteq DOMAIN files
     /\ hist.recovered = hist.rwPost

\* C30 for the folders in which the rewrite found at most one 0Rewrite file
C30_NewSnapshotRecoveredOneFile ==
  (/\ KilledInDelete
   /\ phase \in {"recovered", "failed"}
   /\ Cardinality(OfKind(hist.rwFolder, rewriteFileName)) <= 1) =>
     /\ phase = "recovered"
     /\ OfKind(hist.downFolder, rewriteFileName) \subseteq DOMAIN files
     /\ hist.recovered = hist.rwPost

\* such a kill, of a rewrite that had found two 0Rewrite files, and the start after it
C30_Witness ==
  /\ KilledInDelete
  /\ phase = "recovered"
  /\ Cardinality(OfKind(hist.rwFolder, rewriteFileName)) = 2

----------------------------------------------------------------------------
(* closeFile at Shutdown                                                   *)

\* the step is the closeFile of Shutdown
ClosesFile == pc["s1"] = "close" /\ pc'["s1"] = "idle"

\* the first call of Shutdown returns in this step
ShutdownReturns == hist.calls <= 1 /\ hist'.calls = 1 /\ hist'.shutdowns = 1 /\ hist.shutdowns = 0

\* the dump file of the collector is in the folder fs and holds nothing
EmptySegment(fs, h) == h.path \in DOMAIN fs /\ fs[h.path] = <<>>

\* what closeFile has to do with the dump file h in the folder
ClosedAsSpecified ==
  IF ~file.open
  THEN files' = files /\ logErr' = logErr + 1
  ELSE IF FileSize(files, file) = 0
       THEN DOMAIN files' = DOMAIN files \ {file.path}
       ELSE files' = files /\ logErr' = logErr

\* C26: closeFile removes the dump file exactly when its size is zero; on a
\* file that is closed already it returns an error, which is logged, and
\* removes nothing; when the first Shutdown returns, the dump file of the
\* collector is not an empty file of the folder.
C26_CloseFile ==
  [][/\ ClosesFile => ClosedAsSpecified
     /\ ShutdownReturns => ~EmptySegment(files', file')]_vars

\* the same for the instances that have a dump interval other than 0
C26_CloseFileWithInterval ==
  [][cfg.dumpInterval # 0 =>
       /\ ClosesFile => ClosedAsSpecified
       /\ ShutdownReturns => ~EmptySegment(files', file')]_vars

\* Shutdown has returned and the empty dump file of the collector is in the folder
C26_Witness ==
  /\ hist.calls = 1
  /\ hist.shutdowns = 1
  /\ pc["s1"] = "idle"
  /\ file.open
  /\ EmptySegment(files, file)

\* Shutdown has removed an empty dump file; a second Shutdown has found the file closed
C26_WitnessClosed ==
  /\ cfg.dumpInterval = -1
  /\ hist.calls = 2
  /\ hist.shutdowns = 2
  /\ ~file.open
  /\ file.path \notin DOMAIN files
  /\ logErr > 0

----------------------------------------------------------------------------
(* TransCache.Clear over the cache instances of the TransCache              *)

MaxClears == 1   \* calls of TransCache.Clear in one behaviour

\* the keys of tc.cache
ConfiguredInstances == {"x"} \cup OtherInstances

\* the ids a caller passes: the configured ones and one that names no instance
ChIDs == ConfiguredInstances \cup {"z"}

\* a []string: nil or a slice
NilSlice   == [nil |-> TRUE, ids |-> <<>>]
Slice(ids) == [nil |-> FALSE, ids |-> ids]

ClearArgs == {NilSlice} \cup {Slice(ids) : ids \in UNION {[1..n -> ChIDs] : n \in 0..2}}

EmptyEngine == [cache |-> EmptyCache, lruIdx |-> <<>>, groups |-> EmptyGroups]

\* tc.cache: every instance of the TransCache
EngineOf(ch) == IF ch = "x" THEN TheCache ELSE others[ch]
Engines      == [ch \in ConfiguredInstances |-> EngineOf(ch)]

\* cacheInstance: the instance of chID, or the default one
cacheInstance(chID) == IF chID \in ConfiguredInstances THEN chID ELSE DefaultCacheInstance

\* a Clear that takes nil for the empty list
ListedOnly(arg, keys) == arg.ids

\* Clear: nil stands for every key of tc.cache (keys: the order of the range over the map)
ClearList(arg, keys) == IF arg.nil THEN keys ELSE arg.ids

\* Clear: the loop over chIDs, Cache.Clear of the instance of each
RECURSIVE ClearLoop(_, _)
ClearLoop(eng, chIDs) ==
  IF chIDs = <<>> THEN eng
  ELSE LET ch == cacheInstance(Head(chIDs))
       IN  ClearLoop([eng EXCEPT ![ch] = EmptyEngine], Tail(chIDs))

\* TransCache.Set with commit = true on an instance beside "x"
SetIn(t, chID, id, v) ==
  /\ phase = "up"
  /\ pc[t] = "idle"
  /\ cacheMux = None /\ rlocks = {}
  /\ cacheInstance(chID) # "x"
  /\ others' = [others EXCEPT ![cacheInstance(chID)] = set(@, id, v, <<>>, now, 0)]
  /\ UNCHANGED <<offlineHelper, transactionBuffer, transBufMux, transactionMux, rlocks, tx,
                 now, phase, files, file, collection, cache, lruIdx, groups, cfg,
                 rewriteMux, fileMux, cacheMux, pc, rw, mu, logErr, boot, hist>>

\* TransCache.Clear(chIDs), under cacheMux
ClearInstances(t, arg) ==
  /\ phase = "up"
  /\ pc[t] = "idle"
  /\ cacheMux = None /\ rlocks = {}
  /\ hist.clears < MaxClears
  /\ \E keys \in Orders(ConfiguredInstances), o \in Orders(DOMAIN cache) :
       LET after == ClearLoop(Engines, ClearList(arg, keys))
       IN  /\ others' = [ch \in OtherInstances |-> after[ch]]
           /\ cache' = after["x"].cache
           /\ lruIdx' = after["x"].lruIdx
           /\ groups' = after["x"].groups
           /\ collection' = IF after["x"] = TheCache THEN collection
                            ELSE Notify(collection, TheCache, ClearOp(o), after["x"], cfg).collection
  /\ hist' = [hist EXCEPT !.clears = @ + 1, !.clearArg = [nil |-> arg.nil, ids |-> arg.ids],
                          !.clearBefore = Engines]
  /\ UNCHANGED <<offlineHelper, transactionBuffer, transBufMux, transactionMux, rlocks, tx,
                 now, phase, files, file, cfg, rewriteMux, fileMux, cacheMux, pc, rw, mu,
                 logErr, boot>>

InitClear == InitWith(Config(1, -1, -1, 0), FALSE)

NextClear ==
  \/ \E id \in ItemIDs : Set("m1", id, "v1", <<>>)
  \/ \E chID \in ChIDs, id \in ItemIDs : SetIn("m1", chID, id, "v1")
  \/ \E arg \in ClearArgs : ClearInstances("m1", arg)

SpecClear == InitClear /\ [][NextClear]_vars

\* the call of Clear
Clears == hist'.clears # hist.clears

\* the instances a call names, each id taken as the code resolves it
Resolved(arg) == {cacheInstance(arg.ids[x]) : x \in DOMAIN arg.ids}

\* C21: Clear(nil) empties every cache instance; Clear(ids) empties every
\* instance whose id is in ids and leaves every instance whose id is not in
\* ids as it was
C21_ClearListed ==
  [][Clears =>
       \A ch \in ConfiguredInstances :
         IF hist'.clearArg.nil \/ ch \in Range(hist'.clearArg.ids)
         THEN EngineOf(ch)' = EmptyEngine
         ELSE EngineOf(ch)' = EngineOf(ch)]_vars

\* C21, as the code has it: an id that names no configured instance stands
\* for the default instance, which is emptied as well
C21_ClearResolved ==
  [][Clears =>
       \A ch \in ConfiguredInstances :
         IF hist'.clearArg.nil \/ ch \in Resolved(hist'.clearArg)
         THEN EngineOf(ch)' = EmptyEngine
         ELSE EngineOf(ch)' = EngineOf(ch)]_vars

\* Clear of one listed instance that held an item, beside one that keeps its items
C21_Witness ==
  /\ hist.clears = 1
  /\ hist.clearArg = Slice(<<"y">>)
  /\ hist.clearBefore["y"].cache # EmptyCache
  /\ others["y"] = EmptyEngine
  /\ cache # EmptyCache
  /\ others[DefaultCacheInstance].cache # EmptyCache

\* Clear(nil) of three instances that held items
C21_WitnessAll ==
  /\ hist.clears = 1
  /\ hist.clearArg.nil
  /\ \A ch \in ConfiguredInstances : hist.clearBefore[ch].cache # EmptyCache
  /\ \A ch \in ConfiguredInstances : EngineOf(ch) = EmptyEngine

\* Clear of an id that names no instance: the default instance, not listed, is emptied
C21_WitnessUnconfigured ==
  /\ hist.clears = 1
  /\ hist.clearArg = Slice(<<"z">>)
  /\ hist.clearBefore[DefaultCacheInstance].cache # EmptyCache
  /\ others[DefaultCacheInstance] = EmptyEngine

----------------------------------------------------------------------------
(* The cache engine of an instance with a limit of entries: Set, Get,      *)
(* Remove, RemoveGroup, Clear, the expiry sweep, and the replay of the     *)
(* folder at the next start                                                *)

EngineIDs        == {"a", "b", "c"}
EngineGroupIDs   == {"g1", "g2"}
EngineGroupLists == {<<>>, <<"g1">>, <<"g1", "g2">>}   \* of the items of the earlier run
SetGroupLists    == {<<>>, <<"g2">>}                    \* of the items set in this run
Capacities       == {2}

\* the sets an earlier run with the same configuration has made at
\* millisecond 1 and written to its dump file: at most k items
EarlierSets(k, ttl) ==
  UNION {UNION {{[x \in 1..Cardinality(S) |->
                    OfflineCacheEntity(TRUE, o[x], "v1", gl[o[x]],
                                       IF ttl > 0 THEN 1 + ttl ELSE ZeroTime)]
                  : gl \in [S -> EngineGroupLists]}
                : o \in {CHOOSE q \in Orders(S) : TRUE}}
         : S \in {T \in SUBSET ItemIDs : Cardinality(T) <= k}}

\* the process has started on the folder of that run at millisecond 2
InitEngine ==
  \E k \in Capacities, ttl \in {0, ShortTTL} :
    \E oces \in EarlierSets(k, ttl) :
      LET old   == FolderOf(populateEncoder(EmptyInstance, 1), oces)
          inst  == readInstanceFromFiles(old, validateFilePaths(getFilePaths(old))).instance
          fresh == populateEncoder(old, 2)
      IN  \E order \in Orders(DOMAIN inst) :
            LET c == FromInstance([cache |-> EmptyCache, lruIdx |-> <<>>, groups |-> EmptyGroups],
                                  inst, order)
            IN  /\ now = 2
                /\ phase = "up"
                /\ files = fresh.files
                /\ file = fresh.file
                /\ collection = EmptyInstance
                /\ cache = c.cache
                /\ lruIdx = c.lruIdx
                /\ groups = c.groups
                /\ cfg = Config(-1, -1, k, ttl)
                /\ rewriteMux = None
                /\ fileMux = None
                /\ cacheMux = None
                /\ pc = [t \in Threads |-> "idle"]
                /\ rw = [t \in Rewriters |-> NoRw]
                /\ mu = [t \in Mutators |-> NoMu]
                /\ logErr = 0
                /\ boot = NoBoot
                /\ offlineHelper = NoHelper
                /\ transactionBuffer = NoTransactions
                /\ transBufMux = None
                /\ transactionMux = None
                /\ rlocks = {}
                /\ tx = [cl \in Clients |-> NoTx]
                /\ others = NoOthers
                /\ hist = [NoHist EXCEPT !.engine = TRUE,
                                         !.stamp = Len(order),
                                         !.use = [id \in DOMAIN inst |->
                                                    CHOOSE x \in DOMAIN order : order[x] = id]]

NextEngine ==
  \/ \E id \in EngineIDs, g \in SetGroupLists : Set("m1", id, "v2", g)
  \/ \E id \in EngineIDs : Remove("m1", id)
  \/ \E g \in EngineGroupIDs : RemoveGroup("m1", g)
  \/ Clear("m1")
  \/ WriteEncode("m1", TRUE)
  \/ \E id \in EngineIDs : cleanExpired(id)
  \/ \E id \in ItemIDs : Get("c1", id)
  \/ ReadReturn("c1")
  \/ Crash
  \/ Restart

SpecEngine == InitEngine /\ [][NextEngine]_vars

\* a step of the engine: an operation has been applied
Operated == hist'.stamp # hist.stamp
SetStep  == Operated /\ hist'.op.verb = "Set"
GetStep  == Operated /\ hist'.op.verb = "Get"

\* C22: with a limit of k entries the cache holds at most k items after every
\* operation and after the replay of the folder at start-up
C22_Capacity ==
  phase \in {"up", "recovered"} => Cardinality(DOMAIN cache) <= cfg.maxEntries

\* the replay of the folder of a run whose cache was full and had evicted an item
C22_WitnessReplay ==
  /\ phase = "recovered"
  /\ Cardinality(DOMAIN cache) = cfg.maxEntries
  /\ Len(hist.fired) > 0

\* the group index is the inverse of the group ids of the items
GroupInverse ==
  /\ \A g \in DOMAIN groups : groups[g] # {}
  /\ \A g \in EngineGroupIDs \cup DOMAIN groups, id \in EngineIDs \cup DOMAIN cache :
       (g \in DOMAIN groups /\ id \in groups[g])
         <=> (id \in DOMAIN cache /\ g \in Range(cache[id].groupIDs))

\* C23: after every operation and after the replay at start-up, an item is
\* in the index of group g exactly when g is among its group ids;
\* RemoveGroup(g) removes every member of g from the cache and from every
\* other group it was in, leaves the other items alone and leaves no group g
C23_GroupInverse ==
  /\ [](phase \in {"up", "recovered"} => GroupInverse)
  /\ [][(Operated /\ hist'.op.verb = "RemoveGroup") =>
          LET g       == hist'.op.grpIDs[1]
              members == GroupMembers(groups, g)
          IN  /\ DOMAIN cache' = DOMAIN cache \ members
              /\ \A id \in DOMAIN cache' : cache'[id] = cache[id]
              /\ \A h \in DOMAIN groups' : groups'[h] \cap members = {}
              /\ g \notin DOMAIN groups']_vars

\* RemoveGroup of a group with a member that was in another group as well,
\* which keeps another member
C23_Witness ==
  /\ phase = "up"
  /\ hist.op.verb = "RemoveGroup"
  /\ hist.op.grpIDs = <<"g2">>
  /\ GroupMembers(hist.before.groups, "g1") \cap GroupMembers(hist.before.groups, "g2") # {}
  /\ GroupMembers(hist.before.groups, "g1") \ GroupMembers(hist.before.groups, "g2") # {}
  /\ "g1" \in DOMAIN groups

\* the replay of a folder with the sets of grouped items
C23_WitnessReplay ==
  /\ phase = "recovered"
  /\ hist.ops > 0
  /\ DOMAIN groups = EngineGroupIDs

\* lruIdx, from its front, lists the items by the time of their last Set or Get, latest first
LruOrdered ==
  /\ Range(lruIdx) = DOMAIN cache
  /\ Len(lruIdx) = Cardinality(DOMAIN cache)
  /\ \A x, y \in DOMAIN lruIdx : x < y => hist.use[lruIdx[x]] > hist.use[lruIdx[y]]

\* the item whose last Set or Get is the oldest
Oldest == CHOOSE id \in DOMAIN cache : \A other \in DOMAIN cache : hist.use[id] <= hist.use[other]

EvictsOldest ==
  (SetStep /\ hist'.op.id \notin DOMAIN cache /\ Cardinality(DOMAIN cache) = cfg.maxEntries) =>
     /\ DOMAIN cache' = (DOMAIN cache \ {Oldest}) \cup {hist'.op.id}
     /\ \A id \in DOMAIN cache \ {Oldest} : cache'[id] = cache[id]

KeepsAll ==
  ((SetStep \/ GetStep) /\ hist'.op.id \in DOMAIN cache) =>
     /\ DOMAIN cache' = DOMAIN cache
     /\ \A id \in DOMAIN cache \ {hist'.op.id} : cache'[id] = cache[id]

MostRecent ==
  (SetStep \/ GetStep) =>
     /\ lruIdx'[1] = hist'.op.id
     /\ \A id \in DOMAIN cache' : hist'.use[id] <= hist'.use[hist'.op.id]

\* C24: Set of an item that is not in a full cache removes the item whose
\* last Set or Get is the oldest and no other; Set of an item that is in the
\* cache and Get of it remove nothing and make it the most recently used one
C24_LruEviction ==
  /\ [](phase = "up" => LruOrdered)
  /\ [][EvictsOldest /\ KeepsAll /\ MostRecent]_vars

\* set a, set b, get a, set c with a limit of two: b is evicted, a and c stay
C24_Witness ==
  /\ phase = "up"
  /\ cfg.maxEntries = 2
  /\ hist.reads = 1
  /\ hist.op.verb = "Set"
  /\ Cardinality(DOMAIN hist.before.cache) = 2
  /\ hist.op.id \notin DOMAIN hist.before.cache
  /\ hist.before.lruIdx[2] \notin DOMAIN cache
  /\ hist.before.lruIdx[1] \in DOMAIN cache
  /\ hist.use[hist.before.lruIdx[1]] = hist.stamp - 1

\* the callbacks fired by a step
NewCalls == SubSeq(hist'.fired, Len(hist.fired) + 1, Len(hist'.fired))

C25_WitnessSweep ==
  /\ phase = "up"
  /\ hist.op.verb = "cleanExpired"
  /\ Len(hist.fired) > 0

\* callbacks have been fired by an earlier removal and by a Remove of an item in no group
C25_WitnessRemove ==
  /\ phase = "up"
  /\ hist.op.verb = "Remove"
  /\ hist.before.groups = EmptyGroups
  /\ Len(hist.fired) = 2

----------------------------------------------------------------------------
(* The names of the dump files                                             *)

\* the dump file that a rewrite has just opened is among the files it has listed
SwappedOntoListed(t) == pc[t] = "read" /\ file.path \in Range(rw[t].filePaths)

\* C31: every dump file that populateEncoder opens (at a rotation or in a
\* rewrite) has a name that no file of the folder has, and the dump file a
\* rewrite opens is none of the files that this rewrite has listed
C31_FreshSegmentNames ==
  /\ ~hist.reopened
  /\ \A t \in Rewriters : ~SwappedOntoListed(t)

\* a rewrite in the millisecond in which the dump file was opened, after a write
C31_Witness ==
  /\ hist.reopened
  /\ hist.ops > 0
  /\ \E t \in Rewriters : SwappedOntoListed(t) /\ files[file.path] # <<>>

\* a rotation in the millisecond in which the dump file was opened
C31_WitnessRotation ==
  /\ hist.reopened
  /\ hist.rewrites = 0

----------------------------------------------------------------------------
(* writeEntity: the test of the size and the append                        *)

\* thread m is in writeEntity with a write limit, after checkAndRotateFile
\* has returned and before encodeAndWrite
Checked(m) == pc[m] = "write" /\ mu[m].stage = "encode" /\ cfg.writeLimit # -1

\* a step of another thread while m is there
WhileChecked == \E m \in Mutators : Checked(m) /\ Checked(m)'

\* the size of the dump files, the open one included
DumpSizes == {Len(files[p]) * RecSize : p \in {q \in DOMAIN files : q.k = dumpFileName}}

\* C32: between the test of the size and the append of one writeEntity the
\* dump file is not written, rotated or swapped; a dump file exceeds the
\* write limit by one record at most; with writeLimit = -1 the dump file is
\* replaced by a rewrite only
C32_WriteEntityAtomic ==
  /\ [][WhileChecked => (file' = file /\ files' = files)]_vars
  /\ [](cfg.writeLimit # -1 => \A size \in DumpSizes : size <= cfg.writeLimit * MiB + RecSize)
  /\ [][(cfg.writeLimit = -1 /\ phase' = "up" /\ file'.path # file.path) =>
          \E t \in Rewriters : pc[t] = "walk" /\ pc'[t] = "read"]_vars

\* C32, the bound alone, when no dump file was opened twice in a millisecond
C32_SizeWithFreshNames ==
  (cfg.writeLimit # -1 /\ ~hist.reopened) =>
     \A size \in DumpSizes : size <= cfg.writeLimit * MiB + RecSize

\* C32, writeLimit = -1 alone
C32_NoRotationWithoutLimit ==
  [][(cfg.writeLimit = -1 /\ phase' = "up" /\ file'.path # file.path) =>
       \E t \in Rewriters : pc[t] = "walk" /\ pc'[t] = "read"]_vars

\* a rewrite has swapped the dump file between the test and the append of a writeEntity
C32_Witness ==
  /\ \E m \in Mutators : Checked(m)
  /\ \E t \in Rewriters : pc[t] = "read"
  /\ hist.ops > 0

----------------------------------------------------------------------------
(* Where the records that writeEntity reports as written are               *)

InitSegments ==
  \E wl \in WriteLimits :
    InitState(Config(-1, wl, -1, 0), [NoHist EXCEPT !.segments = TRUE])

NextSegments ==
  \/ Tick
  \/ \E id \in ItemIDs, v \in Values : Set("m1", id, v, <<>>)
  \/ \E id \in ItemIDs : Remove("m1", id)
  \/ WriteCheck("m1")
  \/ WriteEncode("m1", TRUE)
  \/ RewriteFiles("r1")
  \/ Enter("r1")
  \/ Walk("r1")
  \/ Read("r1")
  \/ \E k \in ItemIDs : EncodeTmp("r1", k, "none")
  \/ RenameOld("r1")
  \/ RenameTmp("r1")
  \/ Delete("r1")

SpecSegments == InitSegments /\ [][NextSegments]_vars

\* the records of the dump files opened since the last swap of the dump file
\* by a rewrite (since the start, if there was none), oldest file first
RECURSIVE RecordsOf(_, _)
RecordsOf(fs, paths) ==
  IF paths = <<>> THEN <<>>
  ELSE [x \in DOMAIN fs[Head(paths)] |-> fs[Head(paths)][x].body] \o RecordsOf(fs, Tail(paths))

SegmentsSinceSwap ==
  SortPaths({p \in DOMAIN files :
               p.k = dumpFileName /\ (p = hist.swapPath \/ PathLess(hist.swapPath, p))})

EndsWith(s, t) ==
  /\ Len(t) <= Len(s)
  /\ \A x \in DOMAIN t : s[Len(s) - Len(t) + x] = t[x]

\* C33: the records reported as written since a rewrite last swapped the dump
\* file (the rewrite replays every record written before) are, in the order
\* of the writes, the last records of the dump files opened since: no
\* rotation and no rewrite loses one
C33_RecordsInOneSegment ==
  phase = "up" => EndsWith(RecordsOf(files, SegmentsSinceSwap), hist.sinceSwap)

\* C33 in the runs in which no dump file was opened twice in a millisecond:
\* the dump files opened since the swap hold these records and no other
C33_RecordsInOneSegmentFreshNames ==
  (phase = "up" /\ ~hist.reopened) => RecordsOf(files, SegmentsSinceSwap) = hist.sinceSwap

\* a record was written while a rewrite ran, and the rewrite has deleted its files
C33_Witness ==
  /\ phase = "up"
  /\ hist.rwDone
  /\ hist.sinceSwap # <<>>
  /\ cfg.writeLimit = -1

\* a record was written to the dump file that a running rewrite opened under
\* a new name
C33_WitnessFresh ==
  /\ phase = "up"
  /\ ~hist.reopened
  /\ hist.sinceSwap # <<>>
  /\ \E t \in Rewriters : pc[t] \notin {"idle", "lock", "walk"}

----------------------------------------------------------------------------
(* When a rewrite is skipped                                               *)

\* rewriteFiles leaves getFilePathsAndInstance in this step
Walked(t) == pc[t] = "walk" /\ pc'[t] # "walk" /\ phase' = "up"

\* it returns from it without a rewrite
Skipped(t) == Walked(t) /\ pc'[t] = "idle"

\* the folder holds one file that is no 0Rewrite file, and it is empty
SingleEmptySegment ==
  LET segments == {p \in DOMAIN files : p.k # rewriteFileName}
  IN  /\ Cardinality(segments) = 1
      /\ \A p \in segments : files[p] = <<>>

SkipsExactlyThen == \A t \in Rewriters : Walked(t) => (Skipped(t) <=> SingleEmptySegment)

SkipChangesNothing == \A t \in Rewriters : Skipped(t) => (files' = files /\ file' = file)

C34_WitnessClosed ==
  /\ phase = "up"
  /\ hist.skipped
  /\ ~file.open
  /\ logErr > 0

----------------------------------------------------------------------------
(* Replay as a function of the records of the segments                     *)

MaxSegmentLen == 2   \* records in one segment

\* set records that differ in value, groups and expiry; removals without and with a payload
ReplayEntities ==
  {OfflineCacheEntity(TRUE, "a", "v1", ZeroGroups, ZeroTime),
   OfflineCacheEntity(TRUE, "a", "v2", <<"g1">>, 2),
   OfflineCacheEntity(TRUE, "b", "v1", ZeroGroups, ZeroTime),
   OfflineCacheEntity(FALSE, "a", ZeroValue, ZeroGroups, ZeroTime),
   OfflineCacheEntity(FALSE, "a", "v1", <<"g1">>, 2),
   OfflineCacheEntity(FALSE, "b", ZeroValue, ZeroGroups, ZeroTime)}

SegmentRecords == UNION {[1..n -> ReplayEntities] : n \in 0..MaxSegmentLen}

\* the file that one encoder writes for the records oces
SegmentOf(oces) == [x \in DOMAIN oces |-> Encode(oces[x], x = 1)]

\* the folder of two segments, the first the older
SegmentFolder(segs) ==
  [p \in {Path(dumpFileName, 0, x) : x \in DOMAIN segs} |-> SegmentOf(segs[p.t])]

InitReplay ==
  /\ now = 3
  /\ phase = "down"
  /\ \E s1 \in SegmentRecords, s2 \in SegmentRecords :
       /\ files = SegmentFolder(<<s1, s2>>)
       /\ hist = [NoHist EXCEPT !.segs = <<s1, s2>>]
  /\ file = NoFile
  /\ collection = EmptyInstance
  /\ cache = EmptyCache
  /\ lruIdx = <<>>
  /\ groups = EmptyGroups
  /\ cfg = Config(-1, -1, -1, 0)
  /\ rewriteMux = None
  /\ fileMux = None
  /\ cacheMux = None
  /\ pc = [t \in Threads |-> "idle"]
  /\ rw = [t \in Rewriters |-> NoRw]
  /\ mu = [t \in Mutators |-> NoMu]
  /\ logErr = 0
  /\ boot = NoBoot
  /\ offlineHelper = NoHelper
  /\ transactionBuffer = NoTransactions
  /\ transBufMux = None
  /\ transactionMux = None
  /\ rlocks = {}
  /\ tx = [cl \in Clients |-> NoTx]
  /\ others = NoOthers

\* readInstanceFromFiles on the segments
ReplaySegments(t) ==
  /\ phase = "down"
  /\ pc[t] = "idle"
  /\ LET paths == getFilePaths(files)
         r     == readInstanceFromFiles(files, paths)
     IN  /\ rw' = [rw EXCEPT ![t] = [@ EXCEPT !.filePaths = paths, !.instance = r.instance]]
         /\ hist' = [hist EXCEPT !.replayed = r.instance, !.err = r.err,
                                 !.at = IF r.err THEN r.at ELSE NoPath]
         /\ pc' = [pc EXCEPT ![t] = IF r.err THEN "failed" ELSE "replayed"]
  /\ UNCHANGED <<aux, boot, now, phase, files, file, collection, cache, lruIdx, groups, cfg,
                 rewriteMux, fileMux, cacheMux, mu, logErr>>

\* the loop of rewriteFiles over the instance map, in the order the map yields
\* its items; the segments are left in the folder
FoldSnapshot(t, order) ==
  /\ phase = "down"
  /\ pc[t] = "replayed"
  /\ order \in Orders(DOMAIN rw[t].instance)
  /\ files' = WithFile(files, Path(rewriteFileName, 0, now),
                       SegmentOf([x \in DOMAIN order |-> rw[t].instance[order[x]]]))
  /\ pc' = [pc EXCEPT ![t] = "folded"]
  /\ UNCHANGED <<aux, boot, now, phase, file, collection, cache, lruIdx, groups, cfg,
                 rewriteMux, fileMux, cacheMux, rw, mu, logErr, hist>>

\* readInstanceFromFiles on the snapshot and the segments it was folded from
ReplayAgain(t) ==
  /\ phase = "down"
  /\ pc[t] = "folded"
  /\ LET r == readInstanceFromFiles(files, getFilePaths(files))
     IN  /\ ~r.err
         /\ hist' = [hist EXCEPT !.again = r.instance]
  /\ pc' = [pc EXCEPT ![t] = "again"]
  /\ UNCHANGED <<aux, boot, now, phase, files, file, collection, cache, lruIdx, groups, cfg,
                 rewriteMux, fileMux, cacheMux, rw, mu, logErr>>

NextReplay ==
  \/ ReplaySegments("r1")
  \/ \E order \in Orders(ItemIDs) \cup Orders({"a"}) \cup Orders({"b"}) \cup {<<>>} :
       FoldSnapshot("r1", order)
  \/ ReplayAgain("r1")

SpecReplay == InitReplay /\ [][NextReplay]_vars

\* the records of the segments, oldest first
AllRecords == hist.segs[1] \o hist.segs[2]

\* the last record of item id, if there is one
Records(id) == {x \in DOMAIN AllRecords : AllRecords[x].ItemID = id}

LastRecord(id) == AllRecords[CHOOSE x \in Records(id) : \A y \in Records(id) : y <= x]

LastRecordWins ==
  \A id \in ItemIDs :
    IF Records(id) # {} /\ LastRecord(id).IsSet
    THEN id \in DOMAIN hist.replayed /\ hist.replayed[id] = LastRecord(id)
    ELSE id \notin DOMAIN hist.replayed

\* the records with those at x and x + 1 exchanged, cut into segments as before
Exchanged(x) ==
  LET L == [y \in DOMAIN AllRecords |->
              IF y = x THEN AllRecords[x + 1] ELSE IF y = x + 1 THEN AllRecords[x] ELSE AllRecords[y]]
      n == Len(hist.segs[1])
  IN  <<SubSeq(L, 1, n), SubSeq(L, n + 1, Len(L))>>

ReplayOf(segs) ==
  readInstanceFromFiles(SegmentFolder(segs), getFilePaths(SegmentFolder(segs))).instance

OrderOfOthersIrrelevant ==
  \A x \in 1..(Len(AllRecords) - 1) :
    AllRecords[x].ItemID # AllRecords[x + 1].ItemID => ReplayOf(Exchanged(x)) = hist.replayed

\* C35: the replay of the segments holds, for every id, the last record of
\* that id if it is a set, with its value, groups and expiry, and no item if
\* it is a removal, whatever the removal carries; it is the same when two
\* neighbouring records of different ids are exchanged, and the same when the
\* segments are replayed on top of the snapshot folded from them
C35_ReplayLastRecord ==
  /\ pc["r1"] # "idle" => (LastRecordWins /\ OrderOfOthersIrrelevant)
  /\ pc["r1"] = "again" => hist.again = hist.replayed

\* a set of a with groups and expiry is followed, in the next segment, by a
\* removal that carries a payload, and b is set; the snapshot was replayed too
C35_Witness ==
  /\ pc["r1"] = "again"
  /\ Len(hist.segs[1]) = 2 /\ Len(hist.segs[2]) = 2
  /\ hist.segs[1][1] = OfflineCacheEntity(TRUE, "a", "v2", <<"g1">>, 2)
  /\ hist.segs[2][2] = OfflineCacheEntity(FALSE, "a", "v1", <<"g1">>, 2)
  /\ DOMAIN hist.again = {"b"}

\* the last record of a is a set that follows a removal and another set
C35_WitnessSet ==
  /\ pc["r1"] = "again"
  /\ hist.segs[1] = <<OfflineCacheEntity(TRUE, "a", "v1", ZeroGroups, ZeroTime),
                      OfflineCacheEntity(FALSE, "a", ZeroValue, ZeroGroups, ZeroTime)>>
  /\ "a" \in DOMAIN hist.again
  /\ hist.again["a"].Value = "v2"

----------------------------------------------------------------------------
(* Replay of segments whose last record was cut short                      *)

\* the folder with the last record of the segments in cut cut short
RECURSIVE CutAll(_, _)
CutAll(fs, cut) ==
  IF cut = {} THEN fs
  ELSE LET x == CHOOSE y \in cut : TRUE
       IN  CutAll(CutLast(fs, Path(dumpFileName, 0, x)), cut \ {x})

InitDecode ==
  /\ now = 3
  /\ phase = "down"
  /\ \E s1 \in SegmentRecords, s2 \in SegmentRecords :
       \E cut \in SUBSET {x \in 1..2 : <<s1, s2>>[x] # <<>>} :
         /\ files = CutAll(SegmentFolder(<<s1, s2>>), cut)
         /\ hist = [NoHist EXCEPT !.segs = <<s1, s2>>, !.cut = cut]
  /\ file = NoFile
  /\ collection = EmptyInstance
  /\ cache = EmptyCache
  /\ lruIdx = <<>>
  /\ groups = EmptyGroups
  /\ cfg = Config(-1, -1, -1, 0)
  /\ rewriteMux = None
  /\ fileMux = None
  /\ cacheMux = None
  /\ pc = [t \in Threads |-> "idle"]
  /\ rw = [t \in Rewriters |-> NoRw]
  /\ mu = [t \in Mutators |-> NoMu]
  /\ logErr = 0
  /\ boot = NoBoot
  /\ offlineHelper = NoHelper
  /\ transactionBuffer = NoTransactions
  /\ transBufMux = None
  /\ transactionMux = None
  /\ rlocks = {}
  /\ tx = [cl \in Clients |-> NoTx]
  /\ others = NoOthers

SpecDecode == InitDecode /\ [][NextReplay]_vars

\* the first segment that was cut
FirstCut == CHOOSE x \in hist.cut : \A y \in hist.cut : x <= y

\* C36: when every segment ends where a record ends, the replay applies all
\* records of all segments and returns no error; when a segment ends inside a
\* record, the replay returns an error that names the first such file, and a
\* map with no item, whatever the records before the cut
C36_DecodeFailureAborts ==
  pc["r1"] # "idle" =>
    IF hist.cut = {}
    THEN ~hist.err /\ LastRecordWins
    ELSE /\ hist.err
         /\ pc["r1"] = "failed"
         /\ hist.at = Path(dumpFileName, 0, FirstCut)
         /\ hist.replayed = EmptyInstance

\* the second segment was cut after a whole record, and the first had set an item
C36_Witness ==
  /\ pc["r1"] = "failed"
  /\ hist.cut = {2}
  /\ Len(hist.segs[2]) = 2
  /\ hist.segs[2][1].IsSet
  /\ \E x \in DOMAIN hist.segs[1] : hist.segs[1][x].IsSet /\ hist.segs[1][x].ItemID = "b"

\* two whole segments were replayed to the end of each
C36_WitnessWhole ==
  /\ pc["r1"] = "again"
  /\ hist.cut = {}
  /\ Len(hist.segs[1]) = 2 /\ Len(hist.segs[2]) = 2
  /\ DOMAIN hist.replayed = ItemIDs

----------------------------------------------------------------------------
(* The order in which a thread takes the locks of an instance              *)

\* the engine lock: a mutation holds it exclusively from the change of the
\* structures until the callbacks and the notes to the collector are done
engineLocked(t) == t \in Mutators /\ pc[t] = "write"

\* the locks of the instance that thread t holds
HeldBy(t) ==
  (IF rewriteMux = t THEN {"rewrite"} ELSE {})
    \cup (IF fileMux = t THEN {"file"} ELSE {})
    \cup (IF engineLocked(t) THEN {"engine"} ELSE {})

\* thread t locks fileMux in this step: getFilePathsAndInstance of a rewrite,
\* checkAndRotateFile or the second half of writeEntity of a mutation
LocksFile(t) ==
  /\ phase' = "up"
  /\ \/ t \in Rewriters /\ fileMux # t /\ fileMux' = t
     \/ t \in Mutators /\ pc[t] = "write" /\ (mu'[t] # mu[t] \/ pc'[t] # pc[t])

\* thread t locks rewriteMux in this step
LocksRewrite(t) == rewriteMux # t /\ rewriteMux' = t

FileBeforeEngine ==
  \A t \in Rewriters \cup Mutators :
    LocksFile(t) => HeldBy(t) \cap {"engine", "collection"} = {}

RewriteFirst ==
  \A t \in Rewriters \cup Mutators :
    LocksRewrite(t) => HeldBy(t) = {}

\* C37: no thread locks the file lock while it holds the engine lock or the
\* collection lock, and none locks the rewrite lock while it holds one of the
\* other three
C37_LockOrder == [][FileBeforeEngine /\ RewriteFirst]_vars

\* the half of C37 about the rewrite lock
C37_RewriteLockFirst == [][RewriteFirst]_vars

\* the removal of an item is in writeEntity, called by the onEvicted router
\* under the engine lock, while a rewrite holds the rewrite lock
C37_Witness ==
  /\ phase = "up"
  /\ \E m \in Mutators :
       /\ engineLocked(m)
       /\ mu[m].stage = "encode"
       /\ ~Head(mu[m].wq).IsSet
  /\ \E t \in Rewriters : HeldBy(t) = {"rewrite"}

----------------------------------------------------------------------------
(* Every operation that has started returns: the operations of a running   *)
(* TransCache, one Shutdown, and a RewriteAll of the user (goroutine r2)   *)

InitLive ==
  /\ InitLife
  /\ <<cfg.dumpInterval, offlineHelper.rewriteInterval>> \in {<<1, 1>>, <<-1, -2>>}

\* the only call of Shutdown
ShutdownOnce(t) == hist.calls = 0 /\ ShutdownCall(t)

\* the user calls RewriteAll while no Shutdown has returned
UserRewriteAll ==
  /\ Running
  /\ RewriteAllRuns
  /\ hist.shutdowns = 0
  /\ pc["s1"] \notin {"rewriteAll", "rewriteWait"}
  /\ RewriteFiles("r2")

\* a round of the writer loop that has something to write
TimedWriteAll == collection # EmptyInstance /\ WriterTick

\* the next step of a call of rewriteFiles; the step of
\* getFilePathsAndInstance is taken without its history, which does not
\* decide whether the step can be taken
RewriteStep(t) ==
  \/ Enter(t)
  \/ SwapDumpFile(t) /\ UNCHANGED hist
  \/ WalkClosed(t)
  \/ Read(t)
  \/ \E k \in LifeIDs : EncodeTmp(t, k, "none")
  \/ RenameOld(t)
  \/ RenameTmp(t)
  \/ Delete(t)

\* the next step of a drain
DrainStep == (\E id \in LifeIDs : writeToFile("w1", id, TRUE)) \/ Drained("w1")

\* the next step of Shutdown
ShutdownStep(t) ==
  \/ StopWriting(t)
  \/ WriteStopped(t)
  \/ StopRewrite(t)
  \/ RewriteStopped(t)
  \/ ShutdownRewriteAll(t)
  \/ ShutdownRewritten(t)
  \/ ShutdownClose(t)

NextLive ==
  \/ CloseDone
  \/ Select
  \/ \E id \in LifeIDs : Running /\ Set("m1", id, "v1", <<>>)
  \/ \E id \in LifeIDs : Running /\ Remove("m1", id)
  \/ WriteEncode("m1", TRUE)
  \/ TimedWriteAll
  \/ DrainStep
  \/ RewriterTick
  \/ UserRewriteAll
  \/ \E t \in Rewriters : Enter(t)
  \/ \E t \in Rewriters : Walk(t)
  \/ \E t \in Rewriters : WalkClosed(t)
  \/ \E t \in Rewriters : Read(t)
  \/ \E t \in Rewriters, k \in LifeIDs : EncodeTmp(t, k, "none")
  \/ \E t \in Rewriters : RenameOld(t)
  \/ \E t \in Rewriters : RenameTmp(t)
  \/ \E t \in Rewriters : Delete(t)
  \/ ShutdownOnce("s1")
  \/ ShutdownStep("s1")

SpecLive == InitLive /\ [][NextLive]_vars

\* a step of an operation that has started
LiveStep ==
  \/ CloseDone
  \/ Select
  \/ WriteEncode("m1", TRUE)
  \/ DrainStep
  \/ \E t \in Rewriters : RewriteStep(t)
  \/ ShutdownStep("s1")

\* the scheduler runs a goroutine that can take a step: no behaviour stops
\* where an operation that has started can go on.  The operations that start
\* in a behaviour are finitely many, so a goroutine that could take a step
\* for ever is in the end the only one that can.
Fairness == WF_vars(LiveStep)

FairSpecLive == SpecLive /\ Fairness

LiveThreads == Rewriters \cup {"m1", "w1", "s1"}

AllReturned == \A t \in LiveThreads : pc[t] = "idle"

\* C38: every operation that has started returns and the process goes on: as
\* finitely many operations start, from some point on no operation is under way
C38_EveryOperationReturns == <>[](AllReturned /\ ~hist.panicked)

\* no operation waits for ever: it returns, or the process has ended in a panic
C38_NoThreadWaitsForEver == <>[](AllReturned \/ hist.panicked)

\* Shutdown waits for the last round of the rewriter loop, which waits for
\* the rewrite lock that a RewriteAll of the user holds, after a Set
C38_Witness ==
  /\ phase = "up"
  /\ pc["s1"] = "rewriteStopped"
  /\ rewriteMux = "r2"
  /\ pc["r1"] = "lock"
  /\ hist.ops > 0

\* a RewriteAll of the user that ran beside Shutdown found the dump file closed
C38_WitnessPanic == hist.panicked /\ hist.calls = 1

----------------------------------------------------------------------------
(* The start of the expiry sweep in newCacheFromReader                     *)

\* what an earlier run with a time to live of ShortTTL has left in its dump file
SweepRuns ==
  {<<OfflineCacheEntity(TRUE, "a", "v1", ZeroGroups, 2)>>,
   <<OfflineCacheEntity(TRUE, "a", "v1", ZeroGroups, 3)>>,
   <<OfflineCacheEntity(TRUE, "a", "v1", ZeroGroups, 2),
     OfflineCacheEntity(TRUE, "b", "v2", ZeroGroups, 3)>>}

InitSweep ==
  /\ now \in {2, 3}
  /\ phase = "down"
  /\ \E oces \in SweepRuns : files = FolderOf(populateEncoder(EmptyInstance, 1), oces)
  /\ file = NoFile
  /\ collection = EmptyInstance
  /\ cache = EmptyCache
  /\ lruIdx = <<>>
  /\ groups = EmptyGroups
  /\ \E di \in {-1, 1}, wl \in WriteLimits : cfg = Config(di, wl, -1, ShortTTL)
  /\ rewriteMux = None
  /\ fileMux = None
  /\ cacheMux = None
  /\ pc = [t \in Threads |-> "idle"]
  /\ rw = [t \in Rewriters |-> NoRw]
  /\ mu = [t \in Mutators |-> NoMu]
  /\ logErr = 0
  /\ boot = NoBoot
  /\ offlineHelper = NoHelper
  /\ transactionBuffer = NoTransactions
  /\ transBufMux = None
  /\ transactionMux = None
  /\ rlocks = {}
  /\ tx = [cl \in Clients |-> NoTx]
  /\ others = NoOthers
  /\ hist = NoHist

\* newCacheFromReader up to `go cache.cleanExpired()`: the router is
\* installed, the folder is replayed into the cache, the sweep is started
ReplayAndSweep ==
  /\ phase = "down"
  /\ LET paths == getFilePaths(files)
         valid == validateFilePaths(paths)
         clean == WithoutFiles(files, InvalidPaths(paths))
         r     == readInstanceFromFiles(clean, valid)
     IN  /\ ~r.err
         /\ files' = clean
         /\ \E order \in Orders(DOMAIN r.instance) :
              LET c == FromInstance([cache |-> EmptyCache, lruIdx |-> <<>>, groups |-> EmptyGroups],
                                    r.instance, order)
              IN  cache' = c.cache /\ lruIdx' = c.lruIdx /\ groups' = c.groups
         /\ hist' = [hist EXCEPT !.recovered = r.instance, !.sweeper = cfg.ttl > 0]
  /\ phase' = "starting"
  /\ UNCHANGED <<aux, boot, now, file, collection, cfg, rewriteMux, fileMux, cacheMux,
                 pc, rw, mu, logErr>>

\* newCacheFromReader, its last call: populateEncoder
OpenSegment ==
  /\ phase = "starting"
  /\ files' = populateEncoder(files, now).files
  /\ file' = populateEncoder(files, now).file
  /\ phase' = "up"
  /\ UNCHANGED <<aux, boot, now, collection, cache, lruIdx, groups, cfg,
                 rewriteMux, fileMux, cacheMux, pc, rw, mu, logErr, hist>>

\* the sweep removes an expired item while the collector has no file, writer
\* or encoder.  The router calls storeRemoveEntity: with dumpInterval -1
\* writeEntity gets an error from Stat in checkAndRotateFile, which is logged,
\* or, with no write limit, calls Encode of the nil encoder, which panics;
\* otherwise the removal is noted in the collection
SweepEarly(id) ==
  /\ phase = "starting"
  /\ hist.sweeper
  /\ id \in DOMAIN cache
  /\ cache[id].expiryTime # ZeroTime
  /\ cache[id].expiryTime <= now
  /\ LET c  == remove(TheCache, id)
         ev == onEvicted(collection, <<id>>, cfg.dumpInterval)
     IN  IF ev.write # <<>> /\ cfg.writeLimit = -1
         THEN /\ Down(files)
              /\ hist' = [hist EXCEPT !.early = @ \cup {id}, !.panicked = TRUE]
              /\ UNCHANGED logErr
         ELSE /\ cache' = c.cache
              /\ lruIdx' = c.lruIdx
              /\ groups' = c.groups
              /\ collection' = ev.collection
              /\ logErr' = logErr + (IF ev.write # <<>> THEN 1 ELSE 0)
              /\ hist' = [hist EXCEPT !.early = @ \cup {id}]
              /\ UNCHANGED <<phase, files, file, rewriteMux, fileMux, cacheMux, pc, rw, mu>>
  /\ UNCHANGED <<aux, boot, now, cfg>>

NextSweep ==
  \/ ReplayAndSweep
  \/ OpenSegment
  \/ \E id \in ItemIDs : SweepEarly(id)
  \/ Tick
  \/ \E id \in ItemIDs : cleanExpired(id)
  \/ \E id \in ItemIDs : Set("m1", id, "v1", <<>>)
  \/ WriteCheck("m1")
  \/ WriteEncode("m1", TRUE)

SpecSweep == InitSweep /\ [][NextSweep]_vars

\* C39: while newCacheFromReader has not opened the dump file the sweep is
\* not running, and no removal by the sweep has reached storeRemoveEntity
\* before the file was open
C39_SweeperAfterSegment ==
  /\ phase = "starting" => ~hist.sweeper
  /\ hist.early = {}

\* the half of C39 about the router: a removal by the sweep is handed to the
\* collector, before the file is open too: it is logged as a failed write, it
\* ends the process, or it is in the collection
C39_RouterInstalled ==
  \A id \in hist.early :
     \/ logErr > 0
     \/ hist.panicked
     \/ (id \in DOMAIN collection /\ ~collection[id].IsSet)
     \/ id \in DOMAIN cache

\* an item that the folder holds was removed from the cache before the file
\* was open, and its removal was not written: a start on the folder brings it back
C39_Witness ==
  /\ phase = "up"
  /\ cfg.dumpInterval = -1
  /\ "a" \in hist.early
  /\ "a" \notin DOMAIN cache
  /\ "a" \in DOMAIN Replay(files).instance

\* the removal has met the nil encoder
C39_WitnessPanic == hist.panicked /\ hist.early # {} /\ cfg.writeLimit = -1

----------------------------------------------------------------------------
(* A drain beside Set and Remove, in batched mode.  The drain is the loop  *)
(* of writeToFile over the collection; the history counts the mutations    *)
(* that were applied between its start and its return.                     *)

InitDrain ==
  \E wl \in WriteLimits : InitState(Config(1, wl, -1, 0), [NoHist EXCEPT !.batch = TRUE])

SpecDrain == InitDrain /\ [][NextBatch]_vars

\* the decoded records of item id in the folder fs, in the order of the log
RecordsFor(fs, id) ==
  LET log == LogOf(fs, getFilePaths(fs))
      dec == [x \in DOMAIN log |-> Decode(log[x])]
  IN  SelectSeq(dec, LAMBDA e : e.ItemID = id)

\* the last record of id in fs says what the cache c holds for id
LastRecordAgrees(fs, c, id) ==
  LET recs == RecordsFor(fs, id)
  IN  IF recs = <<>> THEN id \notin DOMAIN c
      ELSE LET last == recs[Len(recs)]
           IN  IF id \in DOMAIN c
               THEN /\ last.IsSet
                    /\ last.Value = c[id].value
                    /\ last.GroupIDs = c[id].groupIDs
                    /\ last.ExpiryTime = c[id].expiryTime
               ELSE ~last.IsSet

\* the entry of id waits in the collection coll and says whether c holds id
StillCollected(coll, c, id) ==
  id \in DOMAIN coll /\ coll[id].IsSet = (id \in DOMAIN c)

NoMutationLost(fs, coll, c) ==
  \A id \in ItemIDs : LastRecordAgrees(fs, c, id) \/ StillCollected(coll, c, id)

C40_NoMutationLostEver == NoMutationLost(files, collection, cache)

C40_WitnessCollected ==
  /\ pc["w1"] = "idle"
  /\ hist.during > 0
  /\ \E id \in ItemIDs :
        ~LastRecordAgrees(files, cache, id) /\ StillCollected(collection, cache, id)

====
